---------------------------- MODULE Spec2Model ----------------------------
(***************************************************************************)
(* Model of the device deployment pipeline of ESP32Manager                 *)
(* (src/esp32_manager/core/device_manager.py and                           *)
(* src/esp32_manager/utils/serial_monitor.py).                             *)
(*                                                                         *)
(* Spec            : the Device Registry (ESP32DeviceManager: scan,        *)
(*                   connect, disconnect) and the Deployment Orchestrator  *)
(*                   (deploy_project) run by one caller thread while the   *)
(*                   scan thread and the environment (plug, unplug, clock) *)
(*                   interleave.                                           *)
(* SpecLife        : Spec with flash_firmware among the caller's           *)
(*                   operations.                                           *)
(* SpecReg         : the registry with observers, serial monitors and a    *)
(*                   caller that closes a transport directly.              *)
(* SpecScan        : start_scanning / stop_scanning and the scan-loop      *)
(*                   threads, with a caller inside connect_device.         *)
(* SpecRepl        : one Interpreter Session (MicroPythonREPL) over a link *)
(*                   that delivers the interpreter's bytes in pieces;      *)
(*                   SpecReplFair adds the fairness of the caller's thread *)
(*                   and of the clock; in SpecReplResumed the caller goes  *)
(*                   on after a call that timed out.                       *)
(* SpecMon         : one SerialMonitor, its reader threads and its caller. *)
(* SpecTransport   : one SerialConnection over a port that comes and goes. *)
(***************************************************************************)
EXTENDS Integers, Sequences, FiniteSets, TLC

(***************************************************************************)
(* Bounds of the model                                                     *)
(***************************************************************************)
MaxFiles == 2        \* longest Transfer Plan
MaxConns == 2        \* SerialConnection objects constructed in one behaviour
MaxTime  == 45       \* the clock stops advancing here (seconds)
MaxOps   == 2        \* calls made in one Interpreter Session
MaxHold  == 2        \* bytes of an answer the link may deliver late
MaxObservers == 2    \* observers registered with add_observer
MaxMonitors  == 2    \* SerialMonitor objects constructed in one behaviour
MaxThreads   == 2    \* reader threads one SerialMonitor starts in one behaviour
MaxLines     == 2    \* lines the monitored connection returns
MaxLoops     == 2    \* scan-loop threads started in one behaviour
MaxIn        == 2    \* bytes waiting in a SerialConnection's input buffer
TickStep == 20       \* seconds by which the clock advances in one step

(***************************************************************************)
(* Program constants                                                       *)
(***************************************************************************)
GraceWindow == 30    \* "30 second timeout" of scan_devices

Ports == {"COM1"}

VARIABLES
    \* ---- environment
    now,                \* time.time(), in seconds
    plugged,            \* ports the platform enumeration currently reports
    \* ---- ESP32DeviceManager
    devices,            \* self.devices: port -> DeviceInfo (state, last_seen)
    connections,        \* self.connections: port -> SerialConnection object id
    conns,              \* the SerialConnection objects: id -> is_connected
    serial_monitors,    \* self.serial_monitors: port -> SerialMonitor object id
    mons,               \* the SerialMonitor objects: id -> connection, thread alive
    observers,          \* self._observers, in registration order
    fired,              \* the events the last registry call passed to _notify_observers
    notes,              \* the observer callbacks it invoked, in order
    reg_call,           \* the last registry call: operation, port, return value
    \* ---- deploy_project: position and locals of the caller thread
    d_pc,
    d_port,
    d_conn,             \* local `connection`
    d_total,            \* total_files = len(files_to_transfer)
    d_cb,               \* progress_callback: "none", "ok" or "raising"
    d_i,                \* files of the plan already handled by the loop
    files_transferred,
    bytes_transferred,
    errors,
    result,             \* the FileTransferResult returned, or NoResult
    trace,              \* what the deployment did on the transport and the callback
    busySet,            \* this invocation executed line 614 (state = BUSY)
    d_connected,        \* what connect_device returned: "unset", "yes", "no"
    d_repl,             \* what enter_repl returned: "unset", "yes", "no"
    \* ---- history of the scans
    lastDetected,       \* ports the most recent scan detected
    \* ---- the remote interpreter and the serial link of one session
    r_mode,             \* how the device behaves: "repl", "silent", "noisy"
    r_fs,               \* the device's files, in directory order
    r_pending,          \* bytes the interpreter has printed, not yet delivered
    rx,                 \* bytes waiting in the host's input buffer (in_waiting)
    \* ---- MicroPythonREPL: position and locals of the session's thread
    s_pc,
    s_buffer,           \* wait_for_prompt: `buffer`
    s_response,         \* execute_command: `response`
    s_expired,          \* the deadline of the wait in progress has passed
    s_call,             \* the call in progress
    s_ops,              \* calls completed in this session
    s_hist,             \* the completed calls and what each returned
    s_last,             \* the last execute_command: command, response, result
    s_enter,            \* what enter_repl returned: "unset", "yes", "no"
    \* ---- the file the session's caller transfers
    l_path,             \* its remote path
    l_file,             \* the local file: readable or not, and its bytes
    \* ---- one SerialMonitor, its reader threads and its connection
    m_feed,             \* what the connection's readline will return, in order
    m_sink,             \* "ok" or "raising": how the callback behaves
    m_cfg,              \* a log file is configured (log_file_path is not None)
    m_stop,             \* self._stop_event is set
    m_thread,           \* self._thread: a thread id, or 0 for None
    m_log,              \* self._log_handle: a handle id, or 0 for None
    m_handles,          \* the log handles opened so far: id -> still open
    m_thr,              \* the reader threads started so far: position, line held
    m_pc,               \* the caller: "idle", or "joining" inside stop()
    m_state,            \* the last call that returned: "new", "started", "stopped"
    m_read,             \* the non-empty lines readline has returned, in order
    m_delivered,        \* the texts passed to the callback, in order
    m_logged,           \* the texts written to the log file, in order
    \* ---- start_scanning / stop_scanning and the scan-loop threads
    scanning,           \* self._scanning
    scan_thread,        \* self._scan_thread: a thread id, or 0 for None
    loops,              \* the scan-loop threads started so far: position, locals
    sc_pc,              \* the caller: "idle", or "joining" inside stop_scanning
    sc_stopped,         \* the loops for which stop_scanning has been called
    \* ---- a caller thread inside connect_device
    c_pc,               \* "idle", or "connecting" inside SerialConnection.connect
    c_port,             \* the port it connects
    c_raised,           \* its last connect_device raised
    \* ---- flash_firmware: position and locals of the caller thread
    f_pc,               \* "idle", or "flashing" while esptool runs
    f_port,
    f_ret,              \* what the last flash_firmware returned
    \* ---- one SerialConnection and the serial port under it
    t_link,             \* the port: "absent", "ok", or "broken" (its I/O raises)
    t_connection,       \* self.connection: "none" or "serial"
    t_is_connected,     \* self.is_connected
    t_in,               \* bytes received and not yet read
    t_last              \* the last operation called and what it returned

obsVars == <<fired, notes, reg_call>>
auxVars == <<serial_monitors, mons, observers>>
regVars == <<now, plugged, devices, connections, conns, lastDetected, obsVars, auxVars>>
depVars == <<d_pc, d_port, d_conn, d_total, d_cb, d_i, files_transferred,
             bytes_transferred, errors, result, trace, busySet,
             d_connected, d_repl>>
fileVars == <<l_path, l_file>>
replVars == <<r_mode, r_fs, r_pending, rx, s_pc, s_buffer, s_response, s_expired,
              s_call, s_ops, s_hist, s_last, s_enter, fileVars>>
monVars == <<m_feed, m_sink, m_cfg, m_stop, m_thread, m_log, m_handles, m_thr,
             m_pc, m_state, m_read, m_delivered, m_logged>>
scanVars == <<scanning, scan_thread, loops, sc_pc, sc_stopped>>
callVars == <<c_pc, c_port, c_raised, f_pc, f_port, f_ret>>
ioVars == <<t_link, t_connection, t_is_connected, t_in, t_last>>
thrVars == <<monVars, scanVars, callVars, ioVars>>
vars == <<regVars, depVars, replVars, thrVars>>

(***************************************************************************)
(* Data                                                                    *)
(***************************************************************************)
DeviceState == {"unknown", "connected", "disconnected", "busy", "flashing",
                "running", "error"}

DeviceInfo(state, last_seen) == [state |-> state, last_seen |-> last_seen]

NoResult == [kind |-> "none"]

FileTransferResult(success, nfiles, nbytes, errs) ==
    [kind |-> "result", success |-> success, files_transferred |-> nfiles,
     bytes_transferred |-> nbytes, errors |-> errs]

\* The i-th entry of the Transfer Plan: its destination path and its size.
RemotePath(i) == i
FileSize(i) == i

\* The per-file and per-deployment error messages.
ErrConnect      == [msg |-> "Failed to connect to device", path |-> 0]
ErrRepl         == [msg |-> "Failed to enter REPL mode", path |-> 0]
ErrUpload(p)    == [msg |-> "Failed to upload", path |-> p]
ErrTransfer(p)  == [msg |-> "Error transferring", path |-> p]
ErrDeploy       == [msg |-> "Deployment failed", path |-> 0]

Restrict(f, S) == [x \in S |-> f[x]]

(***************************************************************************)
(* SerialConnection                                                        *)
(***************************************************************************)
\* SerialConnection.disconnect() on object c
SerialDisconnect(cs, c) == [cs EXCEPT ![c].is_connected = FALSE]

(***************************************************************************)
(* ESP32DeviceManager: observers                                           *)
(***************************************************************************)
\* The registry call just made, as its caller saw it: the operation, its
\* port, what it returned, and whether it found a live connection registered.
RegistryCall(op, port, ret, live) == [op |-> op, port |-> port, ret |-> ret, live |-> live]
NoRegistryCall == RegistryCall("none", "", TRUE, FALSE)

\* What an observer callback does when it is called: return, or raise.
ObserverKinds == {"ok", "raising"}

Event(name, port) == [event |-> name, port |-> port]

\* One invocation of an observer callback.
Invocation(i, e) ==
    [observer |-> i, event |-> e.event, port |-> e.port,
     raised |-> observers[i] = "raising"]

\* _notify_observers with the loop left at the first callback that raises.
RECURSIVE NotifyUntilRaise(_, _)
NotifyUntilRaise(e, i) ==
    IF i > Len(observers) THEN <<>>
    ELSE IF observers[i] = "raising" THEN <<Invocation(i, e)>>
    ELSE <<Invocation(i, e)>> \o NotifyUntilRaise(e, i + 1)

_notify_observers_Propagating(e) == NotifyUntilRaise(e, 1)

\* lines 437-443: every callback is called, in registration order; what one
\* raises is caught and logged
_notify_observers_One(e) == [i \in 1..Len(observers) |-> Invocation(i, e)]

\* the invocations made for a sequence of events
RECURSIVE _notify_observers(_)
_notify_observers(events) ==
    IF Len(events) = 0 THEN <<>>
    ELSE _notify_observers_One(events[1]) \o _notify_observers(Tail(events))

\* lines 433-435
add_observer ==
    /\ Len(observers) < MaxObservers
    /\ \E kind \in ObserverKinds : observers' = Append(observers, kind)
    /\ fired' = <<>>
    /\ notes' = <<>>
    /\ reg_call' = RegistryCall("add_observer", "", TRUE, FALSE)
    /\ UNCHANGED <<now, plugged, devices, connections, conns, lastDetected,
                   serial_monitors, mons, depVars, replVars, thrVars>>

PortOrder(p) == IF p = "COM1" THEN 1 ELSE 2

(***************************************************************************)
(* ESP32DeviceManager.scan_devices                                         *)
(***************************************************************************)
\* DeviceDetector.detect_devices: the ports enumerated by the platform, each
\* probed by _create_device_info, whose result is DISCONNECTED, or CONNECTED
\* when the probe entered the REPL.
ProbeStates == {"disconnected", "connected"}

\* lines 482-490: new and re-detected ports get the fresh DeviceInfo
MergeDetected(devs, detected, probe, t) ==
    [p \in (DOMAIN devs) \cup detected |->
        IF p \in detected THEN DeviceInfo(probe[p], t) ELSE devs[p]]

\* lines 492-497: ports no longer detected become DISCONNECTED
MarkGone(devs, gone) ==
    [p \in DOMAIN devs |->
        IF p \in gone THEN [devs[p] EXCEPT !.state = "disconnected"] ELSE devs[p]]

\* lines 504-511: the entries the scan removes
devices_to_remove(devs, t) ==
    {p \in DOMAIN devs : devs[p].state = "disconnected"
                          /\ t - devs[p].last_seen > GraceWindow}

\* The port sets of the model are walked in this order.
RECURSIVE SetToSeq(_)
SetToSeq(S) ==
    IF S = {} THEN <<>>
    ELSE LET p == CHOOSE x \in S : \A y \in S : PortOrder(x) <= PortOrder(y)
         IN  <<p>> \o SetToSeq(S \ {p})

\* lines 479-516: the update of the maps from what detect_devices returned
ScanUpdate(detected, probe) ==
    LET previous == DOMAIN devices
        gone     == previous \ detected
    IN      LET d1 == MergeDetected(devices, detected, probe, now)
                d2 == MarkGone(d1, gone)
                d3 == Restrict(d2, (DOMAIN d2) \ devices_to_remove(d2, now))
                closing == gone \cap DOMAIN connections
            IN  /\ devices' = d3
                /\ conns' = [c \in DOMAIN conns |->
                                IF \E p \in closing : connections[p] = c
                                THEN [conns[c] EXCEPT !.is_connected = FALSE]
                                ELSE conns[c]]
                /\ connections' = Restrict(connections, (DOMAIN connections) \ gone)
                /\ lastDetected' = detected
                /\ LET events ==
                          [i \in 1..Cardinality(detected \ previous) |->
                              Event("device_connected",
                                    SetToSeq(detected \ previous)[i])]
                          \o [i \in 1..Cardinality(gone) |->
                                Event("device_disconnected", SetToSeq(gone)[i])]
                   IN  /\ fired' = events
                       /\ notes' = _notify_observers(events)
                /\ reg_call' = RegistryCall("scan", "", TRUE, FALSE)

\* lines 476-516, run without interruption
scan_devices ==
    /\ \E probe \in [{p \in Ports : plugged[p]} -> ProbeStates] :
          ScanUpdate({p \in Ports : plugged[p]}, probe)
    /\ UNCHANGED <<now, plugged, auxVars, depVars, replVars, thrVars>>

(***************************************************************************)
(* ESP32DeviceManager.connect_device / disconnect_device                   *)
(***************************************************************************)
\* connect_device without the test of lines 532-534: a transport is
\* constructed also when a live connection is registered.
connect_device_NoLiveCheck(port, opened, ret) ==
    IF port \notin DOMAIN devices
    THEN /\ ret = FALSE
         /\ UNCHANGED <<devices, connections, conns>>
         /\ fired' = <<>>
         /\ notes' = <<>>
         /\ reg_call' = RegistryCall("connect", port, FALSE, FALSE)
    ELSE LET cs == IF port \in DOMAIN connections
                   THEN SerialDisconnect(conns, connections[port])
                   ELSE conns
         IN  IF opened
             THEN /\ conns' = Append(cs, [port |-> port, is_connected |-> TRUE])
                  /\ connections' =
                        [p \in (DOMAIN connections) \cup {port} |->
                            IF p = port THEN Len(cs) + 1 ELSE connections[p]]
                  /\ devices' = [devices EXCEPT ![port].state = "connected"]
                  /\ ret = TRUE
                  /\ fired' = <<Event("device_connected", port)>>
                  /\ notes' = _notify_observers(fired')
                  /\ reg_call' = RegistryCall("connect", port, TRUE,
                          port \in DOMAIN connections
                              /\ conns[connections[port]].is_connected)
             ELSE /\ conns' = cs
                  /\ UNCHANGED <<devices, connections>>
                  /\ ret = FALSE
                  /\ fired' = <<>>
                  /\ notes' = <<>>
                  /\ reg_call' = RegistryCall("connect", port, FALSE, FALSE)

\* connect_device(port): `opened` is what SerialConnection.connect() returns
\* for the transport it constructs, `ret` the value connect_device returns.
connect_device(port, opened, ret) ==
    IF port \notin DOMAIN devices
    THEN /\ ret = FALSE
         /\ UNCHANGED <<devices, connections, conns>>
         /\ fired' = <<>>
         /\ notes' = <<>>
         /\ reg_call' = RegistryCall("connect", port, FALSE, FALSE)
    ELSE IF port \in DOMAIN connections /\ conns[connections[port]].is_connected
    THEN /\ ret = TRUE
         /\ UNCHANGED <<devices, connections, conns>>
         /\ fired' = <<>>
         /\ notes' = <<>>
         /\ reg_call' = RegistryCall("connect", port, TRUE, TRUE)
    ELSE LET cs == IF port \in DOMAIN connections
                   THEN SerialDisconnect(conns, connections[port])
                   ELSE conns
         IN  IF opened
             THEN /\ conns' = Append(cs, [port |-> port, is_connected |-> TRUE])
                  /\ connections' =
                        [p \in (DOMAIN connections) \cup {port} |->
                            IF p = port THEN Len(cs) + 1 ELSE connections[p]]
                  /\ devices' = [devices EXCEPT ![port].state = "connected"]
                  /\ ret = TRUE
                  /\ fired' = <<Event("device_connected", port)>>
                  /\ notes' = _notify_observers(fired')
                  /\ reg_call' = RegistryCall("connect", port, TRUE, FALSE)
             ELSE /\ conns' = cs
                  /\ UNCHANGED <<devices, connections>>
                  /\ ret = FALSE
                  /\ fired' = <<>>
                  /\ notes' = <<>>
                  /\ reg_call' = RegistryCall("connect", port, FALSE, FALSE)

\* What SerialConnection(port).connect() can return: the port opens only
\* when the device is attached, and may fail even then (port in use).
ConnectOutcomes(port) == IF plugged[port] THEN BOOLEAN ELSE {FALSE}

\* disconnect_device that drops the device entry of a port it finds without
\* a connection.
disconnect_device_Forgets(port) ==
    /\ IF port \in DOMAIN connections
       THEN /\ conns' = SerialDisconnect(conns, connections[port])
            /\ connections' = Restrict(connections, (DOMAIN connections) \ {port})
       ELSE UNCHANGED <<connections, conns>>
    /\ IF port \in DOMAIN devices
       THEN /\ devices' = IF port \in DOMAIN connections
                          THEN [devices EXCEPT ![port].state = "disconnected"]
                          ELSE Restrict(devices, (DOMAIN devices) \ {port})
            /\ fired' = <<Event("device_disconnected", port)>>
       ELSE /\ UNCHANGED devices
            /\ fired' = <<>>
    /\ notes' = _notify_observers(fired')
    /\ reg_call' = RegistryCall("disconnect", port, TRUE, port \in DOMAIN connections)

\* lines 547-555
disconnect_device(port) ==
    /\ IF port \in DOMAIN connections
       THEN /\ conns' = SerialDisconnect(conns, connections[port])
            /\ connections' = Restrict(connections, (DOMAIN connections) \ {port})
       ELSE UNCHANGED <<connections, conns>>
    /\ IF port \in DOMAIN devices
       THEN /\ devices' = [devices EXCEPT ![port].state = "disconnected"]
            /\ fired' = <<Event("device_disconnected", port)>>
       ELSE /\ UNCHANGED devices
            /\ fired' = <<>>
    /\ notes' = _notify_observers(fired')
    /\ reg_call' = RegistryCall("disconnect", port, TRUE, port \in DOMAIN connections)

\* The caller thread calls connect_device / disconnect_device between deployments.
CallerConnect ==
    /\ d_pc = "idle"
    /\ c_pc = "idle"
    /\ f_pc = "idle"
    /\ Len(conns) < MaxConns
    /\ \E port \in Ports, opened \in BOOLEAN, ret \in BOOLEAN :
          /\ opened \in ConnectOutcomes(port)
          /\ connect_device(port, opened, ret)
    /\ UNCHANGED <<now, plugged, lastDetected, auxVars, depVars, replVars, thrVars>>

CallerDisconnect ==
    /\ d_pc = "idle"
    /\ c_pc = "idle"
    /\ f_pc = "idle"
    /\ \E port \in Ports : disconnect_device(port)
    /\ UNCHANGED <<now, plugged, lastDetected, auxVars, depVars, replVars, thrVars>>

(***************************************************************************)
(* ESP32DeviceManager.start_monitor / stop_monitor, and a caller that      *)
(* closes the transport it got from get_connection                         *)
(***************************************************************************)
\* SerialMonitor(connection).start(): the reader thread runs
NewMonitor(c) == [conn |-> c, alive |-> TRUE]

\* lines 557-572
start_monitor ==
    /\ d_pc = "idle"
    /\ Len(conns) < MaxConns
    /\ Len(mons) < MaxMonitors
    /\ \E port \in Ports, opened \in BOOLEAN, ret \in BOOLEAN :
          /\ opened \in ConnectOutcomes(port)
          /\ connect_device(port, opened, ret)
          /\ IF ret /\ port \notin DOMAIN serial_monitors
             THEN /\ mons' = Append(mons, NewMonitor(connections'[port]))
                  /\ serial_monitors' =
                        [p \in (DOMAIN serial_monitors) \cup {port} |->
                            IF p = port THEN Len(mons) + 1 ELSE serial_monitors[p]]
             ELSE UNCHANGED <<serial_monitors, mons>>
    /\ UNCHANGED <<now, plugged, lastDetected, observers, depVars, replVars, thrVars>>

\* lines 574-578, and SerialMonitor.stop
stop_monitor ==
    /\ \E port \in DOMAIN serial_monitors :
          /\ mons' = [mons EXCEPT ![serial_monitors[port]].alive = FALSE]
          /\ serial_monitors' =
                Restrict(serial_monitors, (DOMAIN serial_monitors) \ {port})
          /\ reg_call' = RegistryCall("stop_monitor", port, TRUE, FALSE)
    /\ fired' = <<>>
    /\ notes' = <<>>
    /\ UNCHANGED <<now, plugged, devices, connections, conns, lastDetected,
                   observers, depVars, replVars, thrVars>>

\* get_connection(port).disconnect(), lines 580-582 and 103-108
TransportDisconnect ==
    /\ \E port \in DOMAIN connections :
          /\ conns' = SerialDisconnect(conns, connections[port])
          /\ reg_call' = RegistryCall("transport_disconnect", port, TRUE, FALSE)
    /\ fired' = <<>>
    /\ notes' = <<>>
    /\ UNCHANGED <<now, plugged, devices, connections, lastDetected, auxVars,
                   depVars, replVars, thrVars>>

(***************************************************************************)
(* Environment                                                             *)
(***************************************************************************)
Plug   == /\ \E p \in Ports : ~plugged[p] /\ plugged' = [plugged EXCEPT ![p] = TRUE]
          /\ UNCHANGED <<now, devices, connections, conns, lastDetected, obsVars, auxVars,
                         depVars, replVars, thrVars>>

Unplug == /\ \E p \in Ports : plugged[p] /\ plugged' = [plugged EXCEPT ![p] = FALSE]
          /\ UNCHANGED <<now, devices, connections, conns, lastDetected, obsVars, auxVars,
                         depVars, replVars, thrVars>>

Tick   == /\ now + TickStep <= MaxTime
          /\ now' = now + TickStep
          /\ UNCHANGED <<plugged, devices, connections, conns, lastDetected, obsVars, auxVars,
                         depVars, replVars, thrVars>>

(***************************************************************************)
(* ESP32DeviceManager.deploy_project, one action per step of the caller    *)
(* thread.  The scan thread may run between any two of them.               *)
(***************************************************************************)
Callbacks == {"none", "ok", "raising"}

\* What one call of progress_callback can do: return, or raise.
CallbackRaises(cb) == IF cb = "raising" THEN BOOLEAN ELSE {FALSE}

CbEvent(num, den, raised) == [ev |-> "cb", num |-> num, den |-> den, raised |-> raised]
UploadEvent(p, ok)        == [ev |-> "upload", path |-> p, ok |-> ok]
ResetEvent                == [ev |-> "reset"]

\* The caller invokes deploy_project(project_build_path, port, progress_callback);
\* the build directory holds n files.
DeployCall ==
    /\ d_pc = "idle"
    /\ f_pc = "idle"
    /\ Len(conns) < MaxConns
    /\ \E port \in Ports, n \in 0..MaxFiles, cb \in Callbacks :
          /\ d_port' = port
          /\ d_total' = n
          /\ d_cb' = cb
    /\ d_pc' = "connect"
    /\ d_conn' = 0
    /\ d_i' = 0
    /\ files_transferred' = 0
    /\ bytes_transferred' = 0
    /\ errors' = <<>>
    /\ result' = NoResult
    /\ trace' = <<>>
    /\ busySet' = FALSE
    /\ d_connected' = "unset"
    /\ d_repl' = "unset"
    /\ UNCHANGED <<regVars, replVars, thrVars>>

\* lines 587-594
DeployConnect ==
    /\ d_pc = "connect"
    /\ \E opened \in ConnectOutcomes(d_port), ret \in BOOLEAN :
          /\ connect_device(d_port, opened, ret)
          /\ d_connected' = IF ret THEN "yes" ELSE "no"
          /\ IF ret
             THEN /\ d_pc' = "getconn"
                  /\ UNCHANGED result
             ELSE /\ d_pc' = "done"
                  /\ result' = FileTransferResult(FALSE, 0, 0, <<ErrConnect>>)
    /\ UNCHANGED <<now, plugged, lastDetected, auxVars, replVars, thrVars>>
    /\ UNCHANGED <<d_port, d_conn, d_total, d_cb, d_i, files_transferred,
                   bytes_transferred, errors, trace, busySet, d_repl>>

\* lines 596-597: connection = self.connections[port], outside any try
DeployGetConn ==
    /\ d_pc = "getconn"
    /\ IF d_port \in DOMAIN connections
       THEN /\ d_conn' = connections[d_port]
            /\ d_pc' = "enter_repl"
       ELSE /\ d_pc' = "raised"             \* KeyError leaves deploy_project
            /\ UNCHANGED d_conn
    /\ UNCHANGED <<regVars, replVars, thrVars>>
    /\ UNCHANGED <<d_port, d_total, d_cb, d_i, files_transferred,
                   bytes_transferred, errors, result, trace, busySet, d_connected, d_repl>>

\* What repl.enter_repl() can return on the transport: true needs a live link.
EnterReplOutcomes(c) == IF conns[c].is_connected THEN BOOLEAN ELSE {FALSE}

\* DeployEnterRepl without the early return of lines 599-606: a failed REPL
\* entry falls through to the transfer phase.
DeployEnterRepl_NoEarlyReturn ==
    /\ d_pc = "enter_repl"
    /\ \E ok \in EnterReplOutcomes(d_conn) :
          /\ d_repl' = IF ok THEN "yes" ELSE "no"
          /\ d_pc' = "busy"
          /\ UNCHANGED result
    /\ UNCHANGED <<regVars, replVars, thrVars>>
    /\ UNCHANGED <<d_port, d_conn, d_total, d_cb, d_i, files_transferred,
                   bytes_transferred, errors, trace, busySet, d_connected>>

\* lines 599-611
DeployEnterRepl ==
    /\ d_pc = "enter_repl"
    /\ \E ok \in EnterReplOutcomes(d_conn) :
          /\ d_repl' = IF ok THEN "yes" ELSE "no"
          /\ IF ok
             THEN /\ d_pc' = "busy"
                  /\ UNCHANGED result
             ELSE /\ d_pc' = "done"
                  /\ result' = FileTransferResult(FALSE, 0, 0, <<ErrRepl>>)
    /\ UNCHANGED <<regVars, replVars, thrVars>>
    /\ UNCHANGED <<d_port, d_conn, d_total, d_cb, d_i, files_transferred,
                   bytes_transferred, errors, trace, busySet, d_connected>>

\* lines 613-635: self.devices[port].state = DeviceState.BUSY inside the outer
\* try, then the Transfer Plan is listed from the build directory
DeploySetBusy ==
    /\ d_pc = "busy"
    /\ IF d_port \in DOMAIN devices
       THEN /\ devices' = [devices EXCEPT ![d_port].state = "busy"]
            /\ busySet' = TRUE
            /\ d_pc' = "cb_start"
       ELSE /\ d_pc' = "except"             \* KeyError, caught at line 677
            /\ UNCHANGED <<devices, busySet>>
    /\ UNCHANGED <<now, plugged, connections, conns, lastDetected, obsVars, auxVars,
                   replVars, thrVars>>
    /\ UNCHANGED <<d_port, d_conn, d_total, d_cb, d_i, files_transferred,
                   bytes_transferred, errors, result, trace, d_connected, d_repl>>

\* lines 637-638: progress_callback("Starting file transfer", 0.0)
DeployCbStart ==
    /\ d_pc = "cb_start"
    /\ IF d_cb = "none"
       THEN /\ d_pc' = "upload"
            /\ UNCHANGED trace
       ELSE \E raised \in CallbackRaises(d_cb) :
               /\ trace' = Append(trace, CbEvent(0, 1, raised))
               /\ d_pc' = IF raised THEN "except" ELSE "upload"
    /\ UNCHANGED <<regVars, replVars, thrVars>>
    /\ UNCHANGED <<d_port, d_conn, d_total, d_cb, d_i, files_transferred,
                   bytes_transferred, errors, result, busySet, d_connected, d_repl>>

\* What repl.upload_file() can return on the transport: true needs a live link.
UploadOutcomes(c) == IF conns[c].is_connected THEN BOOLEAN ELSE {FALSE}

\* lines 641-656, one iteration of the loop: the upload, the counters, the
\* progress callback, and the inner except that records what either raised.
\*   ok       : what upload_file returned
\*   statOk   : local_path.stat() did not raise
\*   cbRaised : progress_callback raised
TransferOne(p, ok, statOk, cbRaised) ==
    LET uploaded == Append(trace, UploadEvent(p, ok))
        counted  == IF ok THEN files_transferred + 1 ELSE files_transferred
    IN  /\ files_transferred' = counted
        /\ IF ok /\ ~statOk
           THEN \* stat() raised after the count: straight to the inner except
                /\ bytes_transferred' = bytes_transferred
                /\ errors' = Append(errors, ErrTransfer(p))
                /\ trace' = uploaded
           ELSE /\ bytes_transferred' =
                      IF ok THEN bytes_transferred + FileSize(p) ELSE bytes_transferred
                /\ IF d_cb = "none"
                   THEN /\ trace' = uploaded
                        /\ errors' = IF ok THEN errors ELSE Append(errors, ErrUpload(p))
                   ELSE /\ trace' = Append(uploaded, CbEvent(d_i + 1, d_total, cbRaised))
                        /\ errors' =
                              LET e1 == IF ok THEN errors ELSE Append(errors, ErrUpload(p))
                              IN  IF cbRaised THEN Append(e1, ErrTransfer(p)) ELSE e1

DeployUpload ==
    /\ d_pc = "upload"
    /\ d_i < d_total
    /\ \E ok \in UploadOutcomes(d_conn), statOk \in BOOLEAN,
          cbRaised \in CallbackRaises(d_cb) :
          TransferOne(RemotePath(d_i + 1), ok, statOk, cbRaised)
    /\ d_i' = d_i + 1
    /\ UNCHANGED <<regVars, replVars, thrVars>>
    /\ UNCHANGED <<d_pc, d_port, d_conn, d_total, d_cb, result, busySet, d_connected, d_repl>>

\* lines 658-660: progress_callback("Resetting device", 1.0), after the loop
DeployCbReset ==
    /\ d_pc = "upload"
    /\ d_i = d_total
    /\ IF d_cb = "none"
       THEN /\ d_pc' = "reset"
            /\ UNCHANGED trace
       ELSE \E raised \in CallbackRaises(d_cb) :
               /\ trace' = Append(trace, CbEvent(1, 1, raised))
               /\ d_pc' = IF raised THEN "except" ELSE "reset"
    /\ UNCHANGED <<regVars, replVars, thrVars>>
    /\ UNCHANGED <<d_port, d_conn, d_total, d_cb, d_i, files_transferred,
                   bytes_transferred, errors, result, busySet, d_connected, d_repl>>

\* line 662: connection.reset_device() pulses DTR on the serial object
DeployReset ==
    /\ d_pc = "reset"
    /\ trace' = Append(trace, ResetEvent)
    /\ d_pc' = "finish"
    /\ UNCHANGED <<regVars, replVars, thrVars>>
    /\ UNCHANGED <<d_port, d_conn, d_total, d_cb, d_i, files_transferred,
                   bytes_transferred, errors, result, busySet, d_connected, d_repl>>

\* lines 664-675
DeployFinish ==
    /\ d_pc = "finish"
    /\ LET success == Len(errors) = 0
       IN  IF d_port \in DOMAIN devices
           THEN /\ devices' = [devices EXCEPT
                                  ![d_port].state = IF success THEN "running" ELSE "error"]
                /\ result' = FileTransferResult(success, files_transferred,
                                                bytes_transferred, errors)
                /\ d_pc' = "done"
           ELSE /\ d_pc' = "except"         \* KeyError at line 667
                /\ UNCHANGED <<devices, result>>
    /\ UNCHANGED <<now, plugged, connections, conns, lastDetected, obsVars, auxVars,
                   replVars, thrVars>>
    /\ UNCHANGED <<d_port, d_conn, d_total, d_cb, d_i, files_transferred,
                   bytes_transferred, errors, trace, busySet, d_connected, d_repl>>

\* lines 677-687: the outer except
DeployExcept ==
    /\ d_pc = "except"
    /\ errors' = Append(errors, ErrDeploy)
    /\ IF d_port \in DOMAIN devices
       THEN /\ devices' = [devices EXCEPT ![d_port].state = "error"]
            /\ result' = FileTransferResult(FALSE, files_transferred,
                                            bytes_transferred, errors')
            /\ d_pc' = "done"
       ELSE /\ d_pc' = "raised"             \* KeyError at line 679 leaves deploy_project
            /\ UNCHANGED <<devices, result>>
    /\ UNCHANGED <<now, plugged, connections, conns, lastDetected, obsVars, auxVars,
                   replVars, thrVars>>
    /\ UNCHANGED <<d_port, d_conn, d_total, d_cb, d_i, files_transferred,
                   bytes_transferred, trace, busySet, d_connected, d_repl>>

\* deploy_project has returned or raised; the caller goes on.
DeployReturn ==
    /\ d_pc \in {"done", "raised"}
    /\ d_pc' = "idle"
    /\ d_conn' = 0
    /\ d_total' = 0
    /\ d_cb' = "none"
    /\ d_i' = 0
    /\ files_transferred' = 0
    /\ bytes_transferred' = 0
    /\ errors' = <<>>
    /\ result' = NoResult
    /\ trace' = <<>>
    /\ busySet' = FALSE
    /\ d_connected' = "unset"
    /\ d_repl' = "unset"
    /\ UNCHANGED <<regVars, replVars, thrVars>>
    /\ UNCHANGED d_port

(***************************************************************************)
(* Text.  Byte strings and Python strings are sequences of one-character   *)
(* strings; file contents are sequences of byte values 0..255.             *)
(***************************************************************************)
CtrlC == "^C"        \* b'\x03'
CtrlB == "^B"        \* b'\x02'
CRLF  == <<"\r", "\n">>
LF    == <<"\n">>
prompt              == <<">", ">", ">", " ">>
continuation_prompt == <<".", ".", ".", " ">>

\* lines 262-263: the command text up to the destination path
UploadHead ==
    <<"\n","w","i","t","h"," ","o","p","e","n","(","'">>

\* lines 263-264: between the path and the hex literal
UploadMid ==
    <<"'",","," ","'","w","b","'",")"," ","a","s"," ","f",":","\n"," "," ",
      " "," ","f",".","w","r","i","t","e","(","b","y","t","e","s",".","f",
      "r","o","m","h","e","x","(","'">>

\* lines 264-265: after the hex literal
UploadTail ==
    <<"'",")",")","\n">>

\* lines 283-285
DownloadHead ==
    <<"\n","t","r","y",":","\n"," "," "," "," ","w","i","t","h"," ","o","p",
      "e","n","(","'">>

\* lines 285-292
DownloadTail ==
    <<"'",","," ","'","r","b","'",")"," ","a","s"," ","f",":","\n"," "," ",
      " "," "," "," "," "," ","c","o","n","t","e","n","t"," ","="," ","f",
      ".","r","e","a","d","(",")","\n"," "," "," "," ","p","r","i","n","t",
      "(","'","F","I","L","E","_","S","T","A","R","T","'",")","\n"," "," ",
      " "," ","p","r","i","n","t","(","c","o","n","t","e","n","t",".","h",
      "e","x","(",")",")","\n"," "," "," "," ","p","r","i","n","t","(","'",
      "F","I","L","E","_","E","N","D","'",")","\n","e","x","c","e","p","t",
      " ","E","x","c","e","p","t","i","o","n"," ","a","s"," ","e",":","\n",
      " "," "," "," ","p","r","i","n","t","(","'","E","R","R","O","R",":",
      "'",","," ","s","t","r","(","e",")",")","\n">>

\* lines 329-332
ListHead ==
    <<"\n","i","m","p","o","r","t"," ","o","s","\n","t","r","y",":","\n"," ",
      " "," "," ","f","i","l","e","s"," ","="," ","o","s",".","l","i","s",
      "t","d","i","r","(","'">>

\* lines 332-337
ListTail ==
    <<"'",")","\n"," "," "," "," ","f","o","r"," ","f"," ","i","n"," ","f",
      "i","l","e","s",":","\n"," "," "," "," "," "," "," "," ","p","r","i",
      "n","t","(","f",")","\n","e","x","c","e","p","t"," ","E","x","c","e",
      "p","t","i","o","n"," ","a","s"," ","e",":","\n"," "," "," "," ","p",
      "r","i","n","t","(","'","E","R","R","O","R",":","'",","," ","s","t",
      "r","(","e",")",")","\n">>

FILE_START ==
    <<"F","I","L","E","_","S","T","A","R","T">>

FILE_END ==
    <<"F","I","L","E","_","E","N","D">>

\* line 269: the marker upload_file looks for
ErrorMarker ==
    <<"E","r","r","o","r">>

\* line 341: the marker list_files looks for
ERRORMarker ==
    <<"E","R","R","O","R">>

\* line 248
TimeoutMessage ==
    <<"T","i","m","e","o","u","t"," ","w","a","i","t","i","n","g"," ","f",
      "o","r"," ","r","e","s","p","o","n","s","e">>

\* what print('ERROR:', str(e)) prints for a missing file
RemoteErrorLine ==
    <<"E","R","R","O","R",":"," ","[","E","r","r","n","o"," ","2","]"," ",
      "E","N","O","E","N","T">>

\* the banner the interpreter prints on Ctrl-B
Banner ==
    <<"M","i","c","r","o","P","y","t","h","o","n","\r","\n">>

\* bytes.endswith / str.startswith / the `in` operator on strings
EndsWith(s, t) ==
    /\ Len(s) >= Len(t)
    /\ SubSeq(s, Len(s) - Len(t) + 1, Len(s)) = t
StartsWith(s, t) ==
    /\ Len(s) >= Len(t)
    /\ SubSeq(s, 1, Len(t)) = t
Contains(s, t) ==
    \E i \in 1..(Len(s) - Len(t) + 1) : SubSeq(s, i, i + Len(t) - 1) = t
Drop(s, n) == SubSeq(s, n + 1, Len(s))

\* index of the first occurrence of t in s, 0 when there is none
Find(s, t) ==
    LET hits == {i \in 1..(Len(s) - Len(t) + 1) : SubSeq(s, i, i + Len(t) - 1) = t}
    IN  IF hits = {} THEN 0 ELSE CHOOSE i \in hits : \A j \in hits : i <= j

\* str.split(sep): the pieces between the occurrences of sep
RECURSIVE Split(_, _)
Split(s, sep) ==
    LET i == Find(s, sep)
    IN  IF i = 0 THEN <<s>>
        ELSE <<SubSeq(s, 1, i - 1)>> \o Split(Drop(s, i + Len(sep) - 1), sep)

\* sep.join(pieces)
RECURSIVE Join(_, _)
Join(pieces, sep) ==
    IF Len(pieces) = 0 THEN <<>>
    ELSE IF Len(pieces) = 1 THEN pieces[1]
    ELSE pieces[1] \o sep \o Join(Tail(pieces), sep)

\* str.strip(): leading and trailing whitespace removed
Whitespace == {" ", "\n", "\r", "\t"}
RECURSIVE LStrip(_)
LStrip(s) == IF Len(s) > 0 /\ s[1] \in Whitespace THEN LStrip(Tail(s)) ELSE s
RECURSIVE RStrip(_)
RStrip(s) ==
    IF Len(s) > 0 /\ s[Len(s)] \in Whitespace
    THEN RStrip(SubSeq(s, 1, Len(s) - 1)) ELSE s
Strip(s) == RStrip(LStrip(s))

\* bytes.hex() and bytes.fromhex()
HexDigits == <<"0", "1", "2", "3", "4", "5", "6", "7", "8", "9",
               "a", "b", "c", "d", "e", "f">>
RECURSIVE ToHex(_)
ToHex(bs) ==
    IF Len(bs) = 0 THEN <<>>
    ELSE <<HexDigits[(bs[1] \div 16) + 1], HexDigits[(bs[1] % 16) + 1]>>
         \o ToHex(Tail(bs))
HexValue(c) == (CHOOSE i \in 1..16 : HexDigits[i] = c) - 1
IsHexDigit(c) == \E i \in 1..16 : HexDigits[i] = c
ValidHex(h) == Len(h) % 2 = 0 /\ \A i \in 1..Len(h) : IsHexDigit(h[i])
RECURSIVE FromHex(_)
FromHex(h) ==
    IF Len(h) = 0 THEN <<>>
    ELSE <<16 * HexValue(h[1]) + HexValue(h[2])>> \o FromHex(Drop(h, 2))

\* bytes.decode('utf-8', errors='ignore'): bytes that are not valid UTF-8 are
\* dropped, ASCII passes unchanged
InvalidByte == "\\xff"
Decode(bs) == SelectSeq(bs, LAMBDA c : c # InvalidByte)

(***************************************************************************)
(* MicroPythonREPL: the command texts and the parsing of the responses     *)
(***************************************************************************)
\* lines 261-265
upload_command(remote_path, content) ==
    UploadHead \o remote_path \o UploadMid \o ToHex(content) \o UploadTail
\* lines 283-292
download_command(remote_path) == DownloadHead \o remote_path \o DownloadTail
\* lines 329-337
list_command(path) == ListHead \o path \o ListTail

\* A variant of the stripping that keeps the trailing prompt line.
StripEcho_KeepPrompt(response) ==
    LET lines == Split(Decode(response), CRLF)
    IN  IF Len(lines) > 2
        THEN Join(SubSeq(lines, 2, Len(lines)), CRLF)
        ELSE <<>>

\* A variant of the stripping that keeps the echoed command line.
StripEcho_KeepEcho(response) ==
    LET lines == Split(Decode(response), CRLF)
    IN  IF Len(lines) > 1
        THEN Join(SubSeq(lines, 1, Len(lines) - 1), CRLF)
        ELSE <<>>

\* lines 235-242: echo and prompt removed from a response that ends with
\* the prompt
StripEcho(response) ==
    LET lines == Split(Decode(response), CRLF)
    IN  IF Len(lines) > 2
        THEN Join(SubSeq(lines, 2, Len(lines) - 1), CRLF)
        ELSE <<>>

ExecOk(response) == [ok |-> TRUE,  text |-> StripEcho(response)]   \* line 244
ExecTimeout      == [ok |-> FALSE, text |-> TimeoutMessage]        \* line 248

\* A variant of the test of line 269 that does not look for the marker.
upload_result_NoMarkerTest(exec) == exec.ok

\* line 269: what upload_file returns for the result of execute_command
upload_result(exec) == exec.ok /\ ~Contains(exec.text, ErrorMarker)

\* lines 302-308: the loop over the lines of the response
RECURSIVE ExtractHex(_, _, _)
ExtractHex(lines, in_file, hex_content) ==
    IF Len(lines) = 0 THEN hex_content
    ELSE IF Contains(lines[1], FILE_START)
         THEN ExtractHex(Tail(lines), TRUE, hex_content)
    ELSE IF Contains(lines[1], FILE_END)
         THEN hex_content
    ELSE IF in_file
         THEN ExtractHex(Tail(lines), in_file, hex_content \o Strip(lines[1]))
    ELSE ExtractHex(Tail(lines), in_file, hex_content)

NoFile == [written |-> FALSE, content |-> <<>>]

\* A variant of download_file that opens the local file before it looks
\* at the response.
download_result_OpensFirst(exec) ==
    IF exec.ok /\ Contains(exec.text, FILE_START) /\ Contains(exec.text, FILE_END)
       /\ ValidHex(ExtractHex(Split(exec.text, LF), FALSE, <<>>))
       /\ ExtractHex(Split(exec.text, LF), FALSE, <<>>) # <<>>
    THEN [ret |-> TRUE,
          file |-> [written |-> TRUE,
                    content |-> FromHex(ExtractHex(Split(exec.text, LF), FALSE, <<>>))]]
    ELSE [ret |-> FALSE, file |-> [written |-> TRUE, content |-> <<>>]]

\* lines 296-325: what download_file returns and the local file it writes
download_result(exec) ==
    IF exec.ok /\ Contains(exec.text, FILE_START) /\ Contains(exec.text, FILE_END)
    THEN LET hex_content == ExtractHex(Split(exec.text, LF), FALSE, <<>>)
         IN  IF hex_content # <<>>
             THEN IF ValidHex(hex_content)
                  THEN [ret |-> TRUE,
                        file |-> [written |-> TRUE, content |-> FromHex(hex_content)]]
                  ELSE [ret |-> FALSE, file |-> NoFile]   \* ValueError, line 323
             ELSE [ret |-> FALSE, file |-> NoFile]
    ELSE [ret |-> FALSE, file |-> NoFile]

\* lines 341-345: what list_files returns
NonEmptyStripped(lines) ==
    LET stripped == [i \in 1..Len(lines) |-> Strip(lines[i])]
    IN  SelectSeq(stripped, LAMBDA l : l # <<>>)
list_result(exec) ==
    IF exec.ok /\ ~Contains(exec.text, ERRORMarker)
    THEN NonEmptyStripped(Split(exec.text, LF))
    ELSE <<>>

(***************************************************************************)
(* The remote interpreter: it echoes what it receives, executes it on its  *)
(* file system, prints the output and then the prompt.                     *)
(***************************************************************************)
FsIndex(fs, name) ==
    LET hits == {i \in 1..Len(fs) : fs[i].name = name}
    IN  IF hits = {} THEN 0 ELSE CHOOSE i \in hits : TRUE
FsWrite(fs, name, data) ==
    IF FsIndex(fs, name) = 0
    THEN Append(fs, [name |-> name, data |-> data])
    ELSE [fs EXCEPT ![FsIndex(fs, name)].data = data]

\* print(x): the text and the line ending
PrintLine(text) == text \o CRLF

RECURSIVE PrintNames(_)
PrintNames(fs) ==
    IF Len(fs) = 0 THEN <<>> ELSE PrintLine(fs[1].name) \o PrintNames(Tail(fs))

\* the text between the quote that ends `head` and the next quote
Quoted(s, head) ==
    LET rest == Drop(s, Len(head))
        q    == Find(rest, <<"'">>)
    IN  [found |-> StartsWith(s, head) /\ q > 0,
         text  |-> IF q > 0 THEN SubSeq(rest, 1, q - 1) ELSE <<>>,
         after |-> IF q > 0 THEN Drop(rest, q - 1) ELSE <<>>]

\* what the interpreter prints when the write raises (no such directory)
RemoteTraceback ==
    <<"T","r","a","c","e","b","a","c","k"," ","(","m","o","s","t"," ","r",
      "e","c","e","n","t"," ","c","a","l","l"," ","l","a","s","t",")",":",
      "\r","\n","O","S","E","r","r","o","r",":"," ","[","E","r","r","n","o",
      " ","2","]"," ","E","N","O","E","N","T","\r","\n">>

\* open(path, 'wb') on a path below a directory the device does not have
NoSuchDirectory(path) == Contains(path, <<"/">>)

CmdPass  == <<"p", "a", "s", "s">>
CmdPrint == <<"p", "r", "i", "n", "t", "(", "1", ")">>

\* What executing one command does: [out, fs]
RemoteExec(cmd, fs) ==
    LET up   == Quoted(cmd, UploadHead)
        hex  == Quoted(up.after, UploadMid)
        down == Quoted(cmd, DownloadHead)
        ls   == Quoted(cmd, ListHead)
    IN  IF up.found /\ hex.found /\ hex.after = UploadTail /\ ValidHex(hex.text)
        THEN \* with open(path, 'wb') as f: f.write(bytes.fromhex(hex))
             IF NoSuchDirectory(up.text)
             THEN [out |-> RemoteTraceback, fs |-> fs]
             ELSE [out |-> <<>>, fs |-> FsWrite(fs, up.text, FromHex(hex.text))]
        ELSE IF down.found /\ down.after = DownloadTail
        THEN IF FsIndex(fs, down.text) # 0
             THEN [out |-> PrintLine(FILE_START)
                           \o PrintLine(ToHex(fs[FsIndex(fs, down.text)].data))
                           \o PrintLine(FILE_END),
                   fs |-> fs]
             ELSE [out |-> PrintLine(RemoteErrorLine), fs |-> fs]
        ELSE IF ls.found /\ ls.after = ListTail
        THEN [out |-> PrintNames(fs), fs |-> fs]
        ELSE IF cmd = CmdPrint
        THEN [out |-> PrintLine(<<"1">>), fs |-> fs]
        ELSE [out |-> <<>>, fs |-> fs]

\* What the interpreter answers to the bytes of one write: [out, fs]
RemoteReceive(data, fs) ==
    IF data = <<CtrlC>> THEN [out |-> CRLF \o prompt, fs |-> fs]
    ELSE IF data = <<CtrlB>> THEN [out |-> Banner \o prompt, fs |-> fs]
    ELSE LET cmd == IF EndsWith(data, CRLF)
                    THEN SubSeq(data, 1, Len(data) - 2) ELSE data
             run == RemoteExec(cmd, fs)
         IN  [out |-> data \o run.out \o prompt, fs |-> run.fs]

(***************************************************************************)
(* One Interpreter Session on a connected transport: enter_repl, then up   *)
(* to MaxOps calls of upload_file, download_file, list_files and           *)
(* execute_command, against the remote interpreter.                        *)
(***************************************************************************)
RemoteModes == {"repl", "silent", "noisy"}
Names    == { <<"a">>, <<"x", "E", "R", "R", "O", "R">>,
              <<"E", "r", "r", "o", "r">>, <<"l", "i", "b", "/", "m">> }
Contents == { <<>>, <<10>>, <<222, 173, 190, 239>> }
\* The local file of the session: its bytes, or a file that cannot be read.
LocalFiles == [readable : {TRUE}, content : Contents]
                  \cup {[readable |-> FALSE, content |-> <<>>]}
Commands == { CmdPass, CmdPrint }
Root     == <<"/">>

NoCall == [op |-> "none", path |-> <<>>, content |-> <<>>, cmd |-> <<>>,
           clean |-> TRUE, printed |-> <<>>]
NoLast == [valid |-> FALSE, cmd |-> <<>>, response |-> <<>>, ok |-> FALSE,
           text |-> <<>>, timedOut |-> FALSE, clean |-> TRUE, printed |-> <<>>]

\* SerialConnection.write(data) on the connected transport: the interpreter
\* receives the bytes and queues its answer.
HostWrite(data) ==
    IF r_mode = "repl"
    THEN LET answer == RemoteReceive(data, r_fs)
         IN  /\ r_pending' = r_pending \o answer.out
             /\ r_fs' = answer.fs
    ELSE UNCHANGED <<r_pending, r_fs>>

LastN(s, n) == IF Len(s) <= n THEN s ELSE SubSeq(s, Len(s) - n + 1, Len(s))

\* ---- enter_repl, lines 176-199
\* line 180: Ctrl-C
EnterCtrlC ==
    /\ s_pc = "start"
    /\ HostWrite(<<CtrlC>>)
    /\ s_pc' = "ctrl_b"
    /\ UNCHANGED <<r_mode, rx, s_buffer, s_response, s_expired, s_call, s_ops,
                   s_hist, s_last, s_enter>>
    /\ UNCHANGED <<regVars, depVars, fileVars, thrVars>>

\* lines 181-185: Ctrl-B after the first pause
EnterCtrlB ==
    /\ s_pc = "ctrl_b"
    /\ HostWrite(<<CtrlB>>)
    /\ s_pc' = "drain"
    /\ UNCHANGED <<r_mode, rx, s_buffer, s_response, s_expired, s_call, s_ops,
                   s_hist, s_last, s_enter>>
    /\ UNCHANGED <<regVars, depVars, fileVars, thrVars>>

\* lines 188-189: one test of `while self.connection.available()` and, when
\* bytes are waiting, the read that discards them
EnterDrain ==
    /\ s_pc = "drain"
    /\ IF Len(rx) > 0
       THEN /\ rx' = <<>>
            /\ s_pc' = "drain"
       ELSE /\ s_pc' = "empty_line"
            /\ UNCHANGED rx
    /\ UNCHANGED <<r_mode, r_fs, r_pending, s_buffer, s_response, s_expired,
                   s_call, s_ops, s_hist, s_last, s_enter>>
    /\ UNCHANGED <<regVars, depVars, fileVars, thrVars>>

\* lines 192-195 and 203-204: the empty line, then wait_for_prompt starts
EnterEmptyLine ==
    /\ s_pc = "empty_line"
    /\ HostWrite(CRLF)
    /\ s_buffer' = <<>>
    /\ s_expired' = FALSE
    /\ s_pc' = "wait"
    /\ UNCHANGED <<r_mode, rx, s_response, s_call, s_ops, s_hist, s_last, s_enter>>
    /\ UNCHANGED <<regVars, depVars, fileVars, thrVars>>

\* lines 206-216, one iteration of wait_for_prompt (an iteration that finds
\* nothing to read changes nothing).  Only the end of `buffer` is ever
\* looked at, so its last bytes are kept.
wait_for_prompt ==
    /\ s_pc = "wait"
    /\ IF s_expired
       THEN /\ s_enter' = "no"
            /\ s_pc' = "closed"
            /\ UNCHANGED <<rx, s_buffer>>
       ELSE /\ Len(rx) > 0
            /\ s_buffer' = LastN(s_buffer \o rx, Len(prompt))
            /\ rx' = <<>>
            /\ IF EndsWith(s_buffer', prompt) \/ EndsWith(s_buffer', continuation_prompt)
               THEN /\ s_enter' = "yes"
                    /\ s_pc' = "ready"
               ELSE UNCHANGED <<s_enter, s_pc>>
    /\ UNCHANGED <<r_mode, r_fs, r_pending, s_response, s_expired, s_call, s_ops,
                   s_hist, s_last>>
    /\ UNCHANGED <<regVars, depVars, fileVars, thrVars>>

\* ---- the calls of the session: the command is synthesized and written
\* (line 222), and execute_command starts collecting (lines 225-226)
StartCommand(op, path, content, cmd) ==
    /\ s_pc = "ready"
    /\ s_ops < MaxOps
    /\ HostWrite(cmd \o CRLF)
    /\ s_call' = [op |-> op, path |-> path, content |-> content, cmd |-> cmd,
                  clean |-> (rx = <<>> /\ r_pending = <<>>),
                  printed |-> RemoteExec(cmd, r_fs).out]
    /\ s_response' = <<>>
    /\ s_expired' = FALSE
    /\ s_pc' = "exec"
    /\ UNCHANGED <<r_mode, rx, s_buffer, s_ops, s_hist, s_last, s_enter>>
    /\ UNCHANGED <<regVars, depVars, fileVars, thrVars>>

\* What a call returns that failed before any command was written.
NotSent(op, path) ==
    [op |-> op, path |-> path, content |-> <<>>, clean |-> TRUE, timedOut |-> FALSE,
     sent |-> FALSE, printed |-> <<>>, ret |-> FALSE, file |-> NoFile,
     files |-> <<>>, text |-> <<>>]

\* lines 254-267
\* lines 256-258 and 276-278 when the local file cannot be read
upload_file ==
    IF l_file.readable
    THEN StartCommand("upload", l_path, l_file.content,
                      upload_command(l_path, l_file.content))
    ELSE /\ s_pc = "ready"
         /\ s_ops < MaxOps
         /\ s_hist' = Append(s_hist, NotSent("upload", l_path))
         /\ s_ops' = s_ops + 1
         /\ UNCHANGED <<r_mode, r_fs, r_pending, rx, s_pc, s_buffer, s_response,
                        s_expired, s_call, s_last, s_enter>>
         /\ UNCHANGED <<regVars, depVars, fileVars, thrVars>>
\* lines 280-294
download_file ==
    StartCommand("download", l_path, <<>>, download_command(l_path))
\* lines 327-339
list_files == StartCommand("list", Root, <<>>, list_command(Root))
\* a caller's own command
run_command ==
    \E command \in Commands : StartCommand("exec", <<>>, <<>>, command)

\* What the call in progress returns for the result of execute_command.
Completed(call, exec, timedOut) ==
    [op       |-> call.op,
     path     |-> call.path,
     content  |-> call.content,
     clean    |-> call.clean,
     sent     |-> TRUE,
     printed  |-> call.printed,
     timedOut |-> timedOut,
     ret      |-> CASE call.op = "upload"   -> upload_result(exec)
                    [] call.op = "download" -> download_result(exec).ret
                    [] OTHER                -> exec.ok,
     file     |-> IF call.op = "download" THEN download_result(exec).file ELSE NoFile,
     files    |-> IF call.op = "list" THEN list_result(exec) ELSE <<>>,
     text     |-> exec.text]

\* lines 228-248, one iteration of the loop of execute_command (an iteration
\* that finds nothing to read changes nothing), and the caller's handling
\* of what it returns; after a call that timed out the session is at
\* `afterTimeout`.
ExecuteCommand(afterTimeout) ==
    /\ s_pc = "exec"
    /\ IF s_expired
       THEN /\ s_last' = [valid |-> TRUE, cmd |-> s_call.cmd, response |-> s_response,
                          ok |-> ExecTimeout.ok, text |-> ExecTimeout.text,
                          timedOut |-> TRUE, clean |-> s_call.clean,
                          printed |-> s_call.printed]
            /\ s_hist' = Append(s_hist, Completed(s_call, ExecTimeout, TRUE))
            /\ s_ops' = s_ops + 1
            /\ s_pc' = afterTimeout
            /\ UNCHANGED <<rx, s_response>>
       ELSE /\ Len(rx) > 0
            /\ s_response' = s_response \o rx
            /\ rx' = <<>>
            /\ IF EndsWith(s_response', prompt)
               THEN /\ s_last' = [valid |-> TRUE, cmd |-> s_call.cmd,
                                  response |-> s_response',
                                  ok |-> ExecOk(s_response').ok,
                                  text |-> ExecOk(s_response').text,
                                  timedOut |-> FALSE, clean |-> s_call.clean,
                                  printed |-> s_call.printed]
                    /\ s_hist' = Append(s_hist,
                                        Completed(s_call, ExecOk(s_response'), FALSE))
                    /\ s_ops' = s_ops + 1
                    /\ s_pc' = "ready"
               ELSE UNCHANGED <<s_last, s_hist, s_ops, s_pc>>
    /\ UNCHANGED <<r_mode, r_fs, r_pending, s_buffer, s_expired, s_call, s_enter>>
    /\ UNCHANGED <<regVars, depVars, fileVars, thrVars>>

\* The caller of this session makes no further call after one that timed out.
execute_command == ExecuteCommand("closed")

\* The caller goes on with the session after a call that timed out, as the
\* transfer loop of deploy_project does (lines 640-656).
execute_command_resumed == ExecuteCommand("ready")

\* ---- the environment of the session
\* The deadline of the wait in progress passes.
Expire ==
    /\ s_pc \in {"wait", "exec"}
    /\ ~s_expired
    /\ s_expired' = TRUE
    /\ UNCHANGED <<r_mode, r_fs, r_pending, rx, s_pc, s_buffer, s_response, s_call,
                   s_ops, s_hist, s_last, s_enter>>
    /\ UNCHANGED <<regVars, depVars, fileVars, thrVars>>

\* The link delivers queued bytes of the interpreter: all of them, or all
\* but the last few.
SendSizes(n) == {n} \cup {n - j : j \in 1..(IF MaxHold < n THEN MaxHold ELSE n - 1)}
RemoteSend ==
    /\ Len(r_pending) > 0
    /\ \E k \in SendSizes(Len(r_pending)) :
          /\ rx' = rx \o SubSeq(r_pending, 1, k)
          /\ r_pending' = Drop(r_pending, k)
    /\ UNCHANGED <<r_mode, r_fs, s_pc, s_buffer, s_response, s_expired, s_call,
                   s_ops, s_hist, s_last, s_enter>>
    /\ UNCHANGED <<regVars, depVars, fileVars, thrVars>>

\* A device that is not at the prompt keeps printing something else.
RemoteNoise ==
    /\ r_mode = "noisy"
    /\ s_pc \in {"start", "ctrl_b", "drain", "empty_line", "wait"}
    /\ rx = <<>>
    /\ rx' = <<"x">>
    /\ UNCHANGED <<r_mode, r_fs, r_pending, s_pc, s_buffer, s_response, s_expired,
                   s_call, s_ops, s_hist, s_last, s_enter>>
    /\ UNCHANGED <<regVars, depVars, fileVars, thrVars>>

(***************************************************************************)
(* SerialConnection (lines 75-166) over a serial port that can be absent,  *)
(* working, or raising on every I/O call                                   *)
(***************************************************************************)
\* an operation called: what it returned, or that it raised; and whether the
\* link was not connected or its I/O raising when it was called
Operation(op, ret, failing) ==
    [op |-> op, ret |-> ret, failing |-> failing, raised |-> FALSE]
OperationRaised(op) ==
    [op |-> op, ret |-> "none", failing |-> TRUE, raised |-> TRUE]
NoOperation == Operation("none", TRUE, FALSE)
InBytes == {65, 10}

\* lines 112, 125, 136, 147: `not self.is_connected or not self.connection`
NotUsable == ~t_is_connected \/ t_connection = "none"

\* serial.Serial.readline: up to and including the first LF, or what has
\* arrived when the timeout ends
RECURSIVE FirstLine(_)
FirstLine(bs) ==
    IF bs = <<>> THEN <<>>
    ELSE IF Head(bs) = 10 THEN <<10>>
    ELSE <<Head(bs)>> \o FirstLine(Tail(bs))

\* SerialConnection.connect, lines 85-101
TransportConnect ==
    /\ IF t_link = "ok"
       THEN /\ t_connection' = "serial"
            /\ t_is_connected' = TRUE
            /\ t_last' = Operation("connect", TRUE, FALSE)
       ELSE /\ t_is_connected' = FALSE
            /\ t_last' = Operation("connect", FALSE, TRUE)
            /\ UNCHANGED t_connection
    /\ UNCHANGED <<t_link, t_in>>
    /\ UNCHANGED <<regVars, depVars, replVars, monVars, scanVars, callVars>>

\* SerialConnection.disconnect, lines 103-108
TransportClose ==
    /\ t_is_connected' = FALSE
    /\ t_last' = Operation("disconnect", TRUE, FALSE)
    /\ UNCHANGED <<t_link, t_connection, t_in>>
    /\ UNCHANGED <<regVars, depVars, replVars, monVars, scanVars, callVars>>

\* SerialConnection.write, lines 110-121
TransportWrite ==
    /\ t_last' = Operation("write", ~NotUsable /\ t_link = "ok",
                           NotUsable \/ t_link # "ok")
    /\ UNCHANGED <<t_link, t_connection, t_is_connected, t_in>>
    /\ UNCHANGED <<regVars, depVars, replVars, monVars, scanVars, callVars>>

\* SerialConnection.read, lines 123-132
TransportRead ==
    /\ \E size \in 1..MaxIn :
          LET n == IF size < Len(t_in) THEN size ELSE Len(t_in)
          IN  IF NotUsable \/ t_link # "ok"
              THEN /\ t_last' = Operation("read", <<>>, TRUE)
                   /\ UNCHANGED t_in
              ELSE /\ t_last' = Operation("read", SubSeq(t_in, 1, n), FALSE)
                   /\ t_in' = SubSeq(t_in, n + 1, Len(t_in))
    /\ UNCHANGED <<t_link, t_connection, t_is_connected>>
    /\ UNCHANGED <<regVars, depVars, replVars, monVars, scanVars, callVars>>

\* SerialConnection.readline, lines 134-143
TransportReadline ==
    /\ IF NotUsable \/ t_link # "ok"
       THEN /\ t_last' = Operation("readline", <<>>, TRUE)
            /\ UNCHANGED t_in
       ELSE /\ t_last' = Operation("readline", FirstLine(t_in), FALSE)
            /\ t_in' = SubSeq(t_in, Len(FirstLine(t_in)) + 1, Len(t_in))
    /\ UNCHANGED <<t_link, t_connection, t_is_connected>>
    /\ UNCHANGED <<regVars, depVars, replVars, monVars, scanVars, callVars>>

\* SerialConnection.available, lines 145-150: in_waiting is read outside any
\* try block
TransportAvailable ==
    /\ t_last' = IF NotUsable THEN Operation("available", 0, TRUE)
                 ELSE IF t_link # "ok" THEN OperationRaised("available")
                 ELSE Operation("available", Len(t_in), FALSE)
    /\ UNCHANGED <<t_link, t_connection, t_is_connected, t_in>>
    /\ UNCHANGED <<regVars, depVars, replVars, monVars, scanVars, callVars>>

\* The port appears, fails (the device is pulled, the driver reports an
\* error on every call) or disappears; bytes arrive on a working port.
LinkChange ==
    /\ \E l \in {"absent", "ok", "broken"} : l # t_link /\ t_link' = l
    /\ t_in' = IF t_link' = "ok" THEN t_in ELSE <<>>
    /\ UNCHANGED <<t_connection, t_is_connected, t_last>>
    /\ UNCHANGED <<regVars, depVars, replVars, monVars, scanVars, callVars>>

LinkReceive ==
    /\ t_link = "ok"
    /\ t_connection = "serial"
    /\ Len(t_in) < MaxIn
    /\ \E b \in InBytes : t_in' = Append(t_in, b)
    /\ UNCHANGED <<t_link, t_connection, t_is_connected, t_last>>
    /\ UNCHANGED <<regVars, depVars, replVars, monVars, scanVars, callVars>>

(***************************************************************************)
(* ESP32DeviceManager.flash_firmware                                       *)
(***************************************************************************)
\* the handler of lines 763-767: the state becomes ERROR when the port is known
FlashExcept(devs, port) ==
    IF port \in DOMAIN devs THEN [devs EXCEPT ![port].state = "error"] ELSE devs

\* lines 724-746: the first callback, the disconnect of a registered
\* connection, the state FLASHING and the second callback; then esptool runs
FlashBegin ==
    /\ f_pc = "idle"
    /\ d_pc = "idle"
    /\ c_pc = "idle"
    /\ \E port \in Ports, cb \in Callbacks, r1 \in BOOLEAN, r2 \in BOOLEAN :
          /\ r1 \in CallbackRaises(cb)
          /\ r2 \in CallbackRaises(cb)
          /\ f_port' = port
          /\ IF r1
             THEN /\ devices' = FlashExcept(devices, port)
                  /\ UNCHANGED <<connections, conns, obsVars>>
                  /\ f_pc' = "idle"
                  /\ f_ret' = "false"
             ELSE /\ IF port \in DOMAIN connections
                     THEN /\ conns' = SerialDisconnect(conns, connections[port])
                          /\ connections' =
                                Restrict(connections, (DOMAIN connections) \ {port})
                          /\ fired' = IF port \in DOMAIN devices
                                      THEN <<Event("device_disconnected", port)>>
                                      ELSE <<>>
                          /\ notes' = _notify_observers(fired')
                          /\ reg_call' = RegistryCall("disconnect", port, TRUE, TRUE)
                     ELSE UNCHANGED <<connections, conns, obsVars>>
                  /\ IF port \notin DOMAIN devices
                     THEN /\ UNCHANGED devices
                          /\ f_pc' = "idle"
                          /\ f_ret' = "false"
                     ELSE IF r2
                     THEN /\ devices' = [devices EXCEPT ![port].state = "error"]
                          /\ f_pc' = "idle"
                          /\ f_ret' = "false"
                     ELSE /\ devices' = [devices EXCEPT ![port].state = "flashing"]
                          /\ f_pc' = "flashing"
                          /\ f_ret' = "unset"
    /\ UNCHANGED <<now, plugged, lastDetected, auxVars, c_pc, c_port, c_raised>>
    /\ UNCHANGED <<depVars, replVars, monVars, scanVars, ioVars>>

\* lines 748-767: esptool has ended
FlashEnd ==
    /\ f_pc = "flashing"
    /\ \E ok \in BOOLEAN, cb \in Callbacks, r3 \in BOOLEAN :
          /\ r3 \in CallbackRaises(cb)
          /\ IF f_port \notin DOMAIN devices
             THEN /\ UNCHANGED devices
                  /\ f_ret' = "false"
             ELSE IF ok /\ ~r3
             THEN /\ devices' = [devices EXCEPT ![f_port].state = "connected"]
                  /\ f_ret' = "true"
             ELSE /\ devices' = [devices EXCEPT ![f_port].state = "error"]
                  /\ f_ret' = "false"
    /\ f_pc' = "idle"
    /\ UNCHANGED <<now, plugged, connections, conns, lastDetected, obsVars, auxVars>>
    /\ UNCHANGED <<c_pc, c_port, c_raised, f_port>>
    /\ UNCHANGED <<depVars, replVars, monVars, scanVars, ioVars>>

(***************************************************************************)
(* start_scanning / stop_scanning / _scan_loop: the scan-loop threads, and *)
(* a caller thread whose connect_device waits for the port to open         *)
(***************************************************************************)
NewLoop == [pc |-> "check", detected |-> {}, probe |-> <<>>]
AliveLoops == {t \in 1..Len(loops) : loops[t].pc # "dead"}

\* lines 445-457
start_scanning ==
    /\ sc_pc = "idle"
    /\ IF scanning
       THEN UNCHANGED <<scanning, scan_thread, loops>>
       ELSE /\ Len(loops) < MaxLoops
            /\ scanning' = TRUE
            /\ loops' = Append(loops, NewLoop)
            /\ scan_thread' = Len(loops) + 1
    /\ UNCHANGED <<sc_pc, sc_stopped, monVars, callVars, ioVars>>
    /\ UNCHANGED <<regVars, depVars, replVars>>

\* stop_scanning, lines 459-463: the flag is cleared and the caller waits in
\* join(timeout=1)
StopScanSet ==
    /\ sc_pc = "idle"
    /\ scanning' = FALSE
    /\ sc_stopped' = sc_stopped \cup AliveLoops
    /\ sc_pc' = IF scan_thread # 0 THEN "joining" ELSE "idle"
    /\ UNCHANGED <<scan_thread, loops, monVars, callVars, ioVars>>
    /\ UNCHANGED <<regVars, depVars, replVars>>

\* stop_scanning, lines 462-464: join returns, because the loop has ended or
\* because the second has passed with the loop asleep for its interval (5
\* seconds by default) or inside scan_devices
StopScanJoin ==
    /\ sc_pc = "joining"
    /\ loops[scan_thread].pc # "check"
    /\ sc_pc' = "idle"
    /\ UNCHANGED <<scanning, scan_thread, loops, sc_stopped, monVars, callVars, ioVars>>
    /\ UNCHANGED <<regVars, depVars, replVars>>

\* _scan_loop, line 468: the loop condition
LoopCheck(t) ==
    /\ loops[t].pc = "check"
    /\ loops' = [loops EXCEPT ![t].pc = IF scanning THEN "detect" ELSE "dead"]
    /\ UNCHANGED <<scanning, scan_thread, sc_pc, sc_stopped, monVars, callVars, ioVars>>
    /\ UNCHANGED <<regVars, depVars, replVars>>

\* scan_devices, line 478: detect_devices enumerates and probes the ports
LoopDetect(t) ==
    /\ loops[t].pc = "detect"
    /\ \E probe \in [{p \in Ports : plugged[p]} -> ProbeStates] :
          loops' = [loops EXCEPT ![t] =
                        [pc |-> "update", detected |-> DOMAIN probe, probe |-> probe]]
    /\ UNCHANGED <<scanning, scan_thread, sc_pc, sc_stopped, monVars, callVars, ioVars>>
    /\ UNCHANGED <<regVars, depVars, replVars>>

\* scan_devices, lines 479-516, then time.sleep(interval)
LoopUpdate(t) ==
    /\ loops[t].pc = "update"
    /\ ScanUpdate(loops[t].detected, loops[t].probe)
    /\ loops' = [loops EXCEPT ![t] = [NewLoop EXCEPT !.pc = "sleep"]]
    /\ UNCHANGED <<scanning, scan_thread, sc_pc, sc_stopped, monVars, callVars, ioVars>>
    /\ UNCHANGED <<now, plugged, auxVars, depVars, replVars>>

\* _scan_loop, lines 471-474: the sleep ends
LoopWake(t) ==
    /\ loops[t].pc = "sleep"
    /\ loops' = [loops EXCEPT ![t].pc = "check"]
    /\ UNCHANGED <<scanning, scan_thread, sc_pc, sc_stopped, monVars, callVars, ioVars>>
    /\ UNCHANGED <<regVars, depVars, replVars>>

_scan_loop == \E t \in 1..Len(loops) :
                  LoopCheck(t) \/ LoopDetect(t) \/ LoopUpdate(t) \/ LoopWake(t)

\* connect_device, lines 528-538: the port is known and has no live
\* connection; a stale one is closed, a transport is constructed and the
\* caller waits in SerialConnection.connect()
ConnectBegin ==
    /\ c_pc = "idle"
    /\ d_pc = "idle"
    /\ Len(conns) < MaxConns
    /\ \E port \in DOMAIN devices :
          /\ ~(port \in DOMAIN connections /\ conns[connections[port]].is_connected)
          /\ conns' = IF port \in DOMAIN connections
                      THEN SerialDisconnect(conns, connections[port])
                      ELSE conns
          /\ c_port' = port
    /\ c_pc' = "connecting"
    /\ c_raised' = FALSE
    /\ UNCHANGED <<now, plugged, devices, connections, lastDetected, obsVars, auxVars>>
    /\ UNCHANGED <<f_pc, f_port, f_ret>>
    /\ UNCHANGED <<depVars, replVars, monVars, scanVars, ioVars>>

\* connect_device, lines 538-545: connect() has returned; self.devices[port]
\* raises KeyError when a scan has removed the entry meanwhile
ConnectEnd ==
    /\ c_pc = "connecting"
    /\ \E opened \in ConnectOutcomes(c_port) :
          IF opened
          THEN /\ conns' = Append(conns, [port |-> c_port, is_connected |-> TRUE])
               /\ connections' =
                     [p \in (DOMAIN connections) \cup {c_port} |->
                         IF p = c_port THEN Len(conns) + 1 ELSE connections[p]]
               /\ IF c_port \in DOMAIN devices
                  THEN /\ devices' = [devices EXCEPT ![c_port].state = "connected"]
                       /\ fired' = <<Event("device_connected", c_port)>>
                       /\ reg_call' = RegistryCall("connect", c_port, TRUE, FALSE)
                       /\ c_raised' = FALSE
                  ELSE /\ UNCHANGED devices
                       /\ fired' = <<>>
                       /\ reg_call' = RegistryCall("connect", c_port, FALSE, FALSE)
                       /\ c_raised' = TRUE
          ELSE /\ UNCHANGED <<devices, connections, conns>>
               /\ fired' = <<>>
               /\ reg_call' = RegistryCall("connect", c_port, FALSE, FALSE)
               /\ c_raised' = FALSE
    /\ notes' = _notify_observers(fired')
    /\ c_pc' = "idle"
    /\ UNCHANGED <<now, plugged, lastDetected, auxVars, c_port, f_pc, f_port, f_ret>>
    /\ UNCHANGED <<depVars, replVars, monVars, scanVars, ioVars>>

ThreadsIdle ==
    /\ scanning = FALSE
    /\ scan_thread = 0
    /\ loops = <<>>
    /\ sc_pc = "idle"
    /\ sc_stopped = {}
    /\ c_pc = "idle"
    /\ c_port = "COM1"
    /\ c_raised = FALSE
    /\ f_pc = "idle"
    /\ f_port = "COM1"
    /\ f_ret = "unset"
    /\ t_link = "absent"
    /\ t_connection = "none"
    /\ t_is_connected = FALSE
    /\ t_in = <<>>
    /\ t_last = NoOperation

(***************************************************************************)
(* SerialMonitor (utils/serial_monitor.py): one monitor, the threads its   *)
(* start() creates and the connection they read                            *)
(***************************************************************************)
\* what readline() can do: return b'' (nothing arrived before the serial
\* timeout), return a line, or raise
ReadError == <<"raise">>
MonLines == {<<>>, <<"a", "\n">>, <<"b", " ", "\r", "\n">>, ReadError}
RECURSIVE SeqsUpTo(_, _)
SeqsUpTo(S, n) ==
    IF n = 0 THEN {<<>>}
    ELSE SeqsUpTo(S, n - 1) \cup
         {Append(q, x) : q \in {r \in SeqsUpTo(S, n - 1) : Len(r) = n - 1}, x \in S}

\* lines 108-113: the line decoded, right-stripped and prefixed with the
\* timestamp; the callback and the log file receive it with a newline
Timestamp == <<"[", "timestamp", "]", " ">>
Formatted(line) == Timestamp \o RStrip(Decode(line)) \o <<"\n">>

NewThread == [pc |-> "loop", line |-> <<>>]
Alive(t) == t \in 1..Len(m_thr) /\ m_thr[t].pc # "dead"
AliveThreads == {t \in 1..Len(m_thr) : m_thr[t].pc # "dead"}

\* SerialMonitor.start, lines 62-74
MonStart ==
    /\ m_pc = "idle"
    /\ IF m_thread # 0 /\ Alive(m_thread)
       THEN UNCHANGED <<m_stop, m_thread, m_log, m_handles, m_thr>>
       ELSE /\ Len(m_thr) < MaxThreads
            /\ IF m_cfg
               THEN /\ m_handles' = Append(m_handles, TRUE)
                    /\ m_log' = Len(m_handles) + 1
               ELSE UNCHANGED <<m_log, m_handles>>
            /\ m_stop' = FALSE
            /\ m_thr' = Append(m_thr, NewThread)
            /\ m_thread' = Len(m_thr) + 1
    /\ m_state' = "started"
    /\ UNCHANGED <<m_feed, m_sink, m_cfg, m_pc, m_read, m_delivered, m_logged>>
    /\ UNCHANGED <<regVars, depVars, replVars, scanVars, callVars, ioVars>>

\* SerialMonitor.stop, lines 77-82: the event is set and the caller waits in
\* join(timeout=1)
MonStopSet ==
    /\ m_pc = "idle"
    /\ m_stop' = TRUE
    /\ m_pc' = "joining"
    /\ UNCHANGED <<m_feed, m_sink, m_cfg, m_thread, m_log, m_handles, m_thr,
                   m_state, m_read, m_delivered, m_logged>>
    /\ UNCHANGED <<regVars, depVars, replVars, scanVars, callVars, ioVars>>

\* SerialMonitor.stop, lines 80-91: join returns, because the thread has
\* ended or because the second has passed with the thread past the loop
\* condition (readline blocks for up to the transport's timeout of 5
\* seconds, the callback for as long as it likes; a thread at the loop
\* condition ends within its sleep of 0.1 seconds); the thread is forgotten
\* and the log handle closed
MonStopJoin ==
    /\ m_pc = "joining"
    /\ m_thread # 0 => m_thr[m_thread].pc # "loop"
    /\ m_thread' = 0
    /\ IF m_log # 0
       THEN /\ m_handles' = [m_handles EXCEPT ![m_log] = FALSE]
            /\ m_log' = 0
       ELSE UNCHANGED <<m_log, m_handles>>
    /\ m_pc' = "idle"
    /\ m_state' = "stopped"
    /\ UNCHANGED <<m_feed, m_sink, m_cfg, m_stop, m_thr, m_read, m_delivered,
                   m_logged>>
    /\ UNCHANGED <<regVars, depVars, replVars, scanVars, callVars, ioVars>>

\* _read_loop, line 97: the loop condition
ThreadCheck(t) ==
    /\ m_thr[t].pc = "loop"
    /\ m_thr' = [m_thr EXCEPT ![t].pc = IF m_stop THEN "dead" ELSE "readline"]
    /\ UNCHANGED <<m_feed, m_sink, m_cfg, m_stop, m_thread, m_log, m_handles,
                   m_pc, m_state, m_read, m_delivered, m_logged>>

\* _read_loop, lines 98-108: readline; an exception or an empty read goes
\* back to the loop condition after a sleep
ThreadRead(t) ==
    /\ m_thr[t].pc = "readline"
    /\ LET line == IF m_feed = <<>> THEN <<>> ELSE Head(m_feed)
       IN  /\ m_feed' = IF m_feed = <<>> THEN <<>> ELSE Tail(m_feed)
           /\ IF line = ReadError \/ line = <<>>
              THEN /\ m_thr' = [m_thr EXCEPT ![t].pc = "loop"]
                   /\ UNCHANGED m_read
              ELSE /\ m_thr' = [m_thr EXCEPT ![t] = [pc |-> "deliver", line |-> line]]
                   /\ m_read' = Append(m_read, line)
    /\ UNCHANGED <<m_sink, m_cfg, m_stop, m_thread, m_log, m_handles,
                   m_pc, m_state, m_delivered, m_logged>>

\* lines 118-121: try/except around the callback
AfterCallback(raised) == "log"

\* _read_loop, lines 110-121: the callback is called with the formatted
\* line; what it raises is caught
ThreadDeliver(t) ==
    /\ m_thr[t].pc = "deliver"
    /\ m_delivered' = Append(m_delivered, Formatted(m_thr[t].line))
    /\ m_thr' = [m_thr EXCEPT ![t].pc = AfterCallback(m_sink = "raising")]
    /\ UNCHANGED <<m_feed, m_sink, m_cfg, m_stop, m_thread, m_log, m_handles,
                   m_pc, m_state, m_read, m_logged>>

\* _read_loop, lines 123-128: the line is written to the handle the monitor
\* holds now; a write on a closed handle raises and is caught
ThreadLog(t) ==
    /\ m_thr[t].pc = "log"
    /\ m_logged' = IF m_log # 0 /\ m_handles[m_log]
                   THEN Append(m_logged, Formatted(m_thr[t].line))
                   ELSE m_logged
    /\ m_thr' = [m_thr EXCEPT ![t] = NewThread]
    /\ UNCHANGED <<m_feed, m_sink, m_cfg, m_stop, m_thread, m_log, m_handles,
                   m_pc, m_state, m_read, m_delivered>>

_read_loop ==
    /\ \E t \in 1..Len(m_thr) :
          ThreadCheck(t) \/ ThreadRead(t) \/ ThreadDeliver(t) \/ ThreadLog(t)
    /\ UNCHANGED <<regVars, depVars, replVars, scanVars, callVars, ioVars>>

MonIdle ==
    /\ m_feed = <<>>
    /\ m_sink = "ok"
    /\ m_cfg = FALSE
    /\ m_stop = FALSE
    /\ m_thread = 0
    /\ m_log = 0
    /\ m_handles = <<>>
    /\ m_thr = <<>>
    /\ m_pc = "idle"
    /\ m_state = "new"
    /\ m_read = <<>>
    /\ m_delivered = <<>>
    /\ m_logged = <<>>

ReplIdle ==
    /\ r_fs = <<>>
    /\ r_pending = <<>>
    /\ rx = <<>>
    /\ s_buffer = <<>>
    /\ s_response = <<>>
    /\ s_expired = FALSE
    /\ s_call = NoCall
    /\ s_ops = 0
    /\ s_hist = <<>>
    /\ s_last = NoLast
    /\ s_enter = "unset"

RegInit ==
    /\ now = 0
    /\ plugged = [p \in Ports |-> FALSE]
    /\ devices = <<>>
    /\ connections = <<>>
    /\ conns = <<>>
    /\ lastDetected = {}
    /\ serial_monitors = <<>>
    /\ mons = <<>>
    /\ observers = <<>>
    /\ fired = <<>>
    /\ notes = <<>>
    /\ reg_call = NoRegistryCall
    /\ d_pc = "idle"
    /\ d_port = "COM1"
    /\ d_conn = 0
    /\ d_total = 0
    /\ d_cb = "none"
    /\ d_i = 0
    /\ files_transferred = 0
    /\ bytes_transferred = 0
    /\ errors = <<>>
    /\ result = NoResult
    /\ trace = <<>>
    /\ busySet = FALSE
    /\ d_connected = "unset"
    /\ d_repl = "unset"

\* The registry with no session under observation.
Init ==
    /\ RegInit
    /\ ReplIdle
    /\ r_mode = "repl"
    /\ s_pc = "closed"
    /\ l_path = <<"a">>
    /\ l_file = [readable |-> TRUE, content |-> <<>>]
    /\ MonIdle
    /\ ThreadsIdle

\* A session under observation on a connected transport.
InitRepl ==
    /\ RegInit
    /\ ReplIdle
    /\ r_mode \in RemoteModes
    /\ s_pc = "start"
    /\ l_path \in Names
    /\ l_file \in LocalFiles
    /\ MonIdle
    /\ ThreadsIdle

\* A monitor constructed on a connection, with or without a log file, its
\* callback returning or raising.
InitMon ==
    /\ RegInit
    /\ ReplIdle
    /\ r_mode = "repl"
    /\ s_pc = "closed"
    /\ l_path = <<"a">>
    /\ l_file = [readable |-> TRUE, content |-> <<>>]
    /\ m_feed \in SeqsUpTo(MonLines, MaxLines)
    /\ m_sink \in {"ok", "raising"}
    /\ m_cfg \in BOOLEAN
    /\ m_stop = FALSE
    /\ m_thread = 0
    /\ m_log = 0
    /\ m_handles = <<>>
    /\ m_thr = <<>>
    /\ m_pc = "idle"
    /\ m_state = "new"
    /\ m_read = <<>>
    /\ m_delivered = <<>>
    /\ m_logged = <<>>
    /\ ThreadsIdle

NextMon ==
    \/ MonStart
    \/ MonStopSet
    \/ MonStopJoin
    \/ _read_loop

SpecMon == InitMon /\ [][NextMon]_vars

\* One SerialConnection used by a caller while the port comes and goes.
NextTransport ==
    \/ TransportConnect
    \/ TransportClose
    \/ TransportWrite
    \/ TransportRead
    \/ TransportReadline
    \/ TransportAvailable
    \/ LinkChange
    \/ LinkReceive

SpecTransport == Init /\ [][NextTransport]_vars

\* The registry with its scan loop started and stopped by one caller thread
\* while another connects and disconnects.
NextScan ==
    \/ start_scanning
    \/ StopScanSet
    \/ StopScanJoin
    \/ _scan_loop
    \/ ConnectBegin
    \/ ConnectEnd
    \/ CallerDisconnect
    \/ Plug
    \/ Unplug
    \/ Tick

SpecScan == Init /\ [][NextScan]_vars

\* The registry used by a caller that registers observers and monitors
\* while the scan thread runs; no deployment is in progress.
NextReg ==
    \/ scan_devices
    \/ CallerConnect
    \/ CallerDisconnect
    \/ add_observer
    \/ start_monitor
    \/ stop_monitor
    \/ TransportDisconnect
    \/ Plug
    \/ Unplug
    \/ Tick

SpecReg == Init /\ [][NextReg]_vars

NextRepl ==
    \/ EnterCtrlC
    \/ EnterCtrlB
    \/ EnterDrain
    \/ EnterEmptyLine
    \/ wait_for_prompt
    \/ upload_file
    \/ download_file
    \/ list_files
    \/ run_command
    \/ execute_command
    \/ Expire
    \/ RemoteSend
    \/ RemoteNoise

SpecRepl == InitRepl /\ [][NextRepl]_vars

\* The session of a caller that goes on after a timeout.
NextReplResumed ==
    \/ EnterCtrlC
    \/ EnterCtrlB
    \/ EnterDrain
    \/ EnterEmptyLine
    \/ wait_for_prompt
    \/ upload_file
    \/ download_file
    \/ list_files
    \/ run_command
    \/ execute_command_resumed
    \/ Expire
    \/ RemoteSend
    \/ RemoteNoise

SpecReplResumed == InitRepl /\ [][NextReplResumed]_vars

\* The caller's thread keeps running and the clock keeps advancing.
enter_repl == EnterCtrlC \/ EnterCtrlB \/ EnterDrain \/ EnterEmptyLine \/ wait_for_prompt
SpecReplFair == SpecRepl /\ WF_vars(enter_repl) /\ WF_vars(Expire)

(***************************************************************************)
(* Specification of the registry and the orchestrator                      *)
(***************************************************************************)
Next ==
    \/ scan_devices
    \/ CallerConnect
    \/ CallerDisconnect
    \/ Plug
    \/ Unplug
    \/ Tick
    \/ DeployCall
    \/ DeployConnect
    \/ DeployGetConn
    \/ DeployEnterRepl
    \/ DeploySetBusy
    \/ DeployCbStart
    \/ DeployUpload
    \/ DeployCbReset
    \/ DeployReset
    \/ DeployFinish
    \/ DeployExcept
    \/ DeployReturn

Spec == Init /\ [][Next]_vars

\* The same with flash_firmware among the caller's operations.
NextLife ==
    \/ Next
    \/ FlashBegin
    \/ FlashEnd

SpecLife == Init /\ [][NextLife]_vars

(***************************************************************************)
(* Properties of deploy_project                                            *)
(***************************************************************************)
Returned == d_pc = "done"
Over     == d_pc \in {"done", "raised"}

\* destination paths whose upload was attempted / failed / succeeded
Attempted == {trace[k].path : k \in {j \in 1..Len(trace) : trace[j].ev = "upload"}}
FailedUploads ==
    {k \in 1..Len(trace) : trace[k].ev = "upload" /\ ~trace[k].ok}
SucceededUploads ==
    {k \in 1..Len(trace) : trace[k].ev = "upload" /\ trace[k].ok}
Resets == {k \in 1..Len(trace) : trace[k].ev = "reset"}
UploadsAt == {k \in 1..Len(trace) : trace[k].ev = "upload"}

\* C1: when exactly one upload of an N-file plan fails and the other N-1
\* succeed, the returned result has success = false, files_transferred = N-1
\* and exactly one error, naming the failed file's destination path, and all
\* N files were attempted.
C1_SingleFailure ==
    (/\ Returned
     /\ d_repl = "yes"
     /\ Cardinality(FailedUploads) = 1
     /\ Cardinality(SucceededUploads) = d_total - 1)
    => /\ result.success = FALSE
       /\ result.files_transferred = d_total - 1
       /\ Len(result.errors) = 1
       /\ \A k \in FailedUploads : result.errors[1].path = trace[k].path
       /\ Attempted = 1..d_total

\* C2: every returned Transfer Result has success exactly when its error list
\* is empty, success implies files_transferred = plan length, and when all N
\* uploads of the plan succeeded the result is success = true,
\* files_transferred = N, errors empty.
C2_ResultInvariant ==
    Returned =>
       /\ result.success <=> (result.errors = <<>>)
       /\ (result.success => result.files_transferred = d_total)
       /\ (d_i = d_total /\ Cardinality(SucceededUploads) = d_total /\ d_repl = "yes")
             => /\ result.success
                /\ result.files_transferred = d_total
                /\ result.errors = <<>>

\* The entries of the returned error list that the transfer loop appended.
PlanErrors == {k \in 1..Len(result.errors) : result.errors[k] # ErrDeploy}

\* C29: in a Transfer Result returned after the transfer loop ran to its
\* end, files_transferred plus the errors recorded for plan entries is the
\* length of the Transfer Plan.
C29_EachEntryOnce ==
    (Returned /\ d_repl = "yes" /\ d_i = d_total) =>
        result.files_transferred + Cardinality(PlanErrors) = d_total

\* C3: every invocation of deploy_project returns a complete Transfer Result
\* and never raises, also while the scan loop changes the device map.
C3_NeverRaises ==
    /\ d_pc # "raised"
    /\ Returned => result.kind = "result"

\* C9: a deployment that reached the transfer phase issues the hardware reset
\* exactly once, after the last upload attempt of the plan and before it
\* ends; no reset is issued before or between uploads.
C9_ResetOnce ==
    /\ \A r \in Resets : \A u \in UploadsAt : u < r
    /\ (Over /\ d_repl = "yes")
          => /\ Cardinality(Resets) = 1
             /\ Attempted = 1..d_total

\* C10: when connect_device fails or enter_repl returns false, deploy_project
\* returns at once success = false, files_transferred = 0, bytes_transferred
\* = 0 and exactly one error saying which of the two failed; it has attempted
\* no upload, issued no reset, called no progress callback and has not set
\* the device's state to BUSY.
C10_FailFast ==
    (d_connected = "no" \/ d_repl = "no")
    => /\ Returned
       /\ result.kind = "result"
       /\ result.success = FALSE
       /\ result.files_transferred = 0
       /\ result.bytes_transferred = 0
       /\ result.errors = IF d_connected = "no" THEN <<ErrConnect>> ELSE <<ErrRepl>>
       /\ trace = <<>>
       /\ ~busySet
       /\ d_port \in DOMAIN devices => devices[d_port].state # "busy"

C10_Witness == Returned /\ d_connected = "yes" /\ d_repl = "no"

\* The deployment is between line 614 and the computation of its result.
InTransfer == d_pc \in {"cb_start", "upload", "reset", "finish"}

\* C11: from the start of the transfer phase until the result is computed
\* the target device's state is BUSY, and when deploy_project returns after
\* the transfer phase the state is RUNNING if the returned success flag is
\* true and ERROR if it is false, also while the periodic scan runs.
C11_BusyThenOutcome ==
    [][ /\ InTransfer' =>
              (d_port' \in DOMAIN devices' /\ devices'[d_port'].state = "busy")
        /\ ((InTransfer \/ d_pc = "except") /\ d_pc' = "done") =>
              ( /\ d_port \in DOMAIN devices'
                /\ devices'[d_port].state =
                      IF result'.success THEN "running" ELSE "error" )
      ]_vars

\* The calls of progress_callback made by the deployment, in order.
ProgressCalls == SelectSeq(trace, LAMBDA e : e.ev = "cb")
\* The fraction num/den is at most the fraction num2/den2.
FractionLeq(num, den, num2, den2) == num * den2 <= num2 * den

\* C12: with a progress callback, a deployment of N files that reached the
\* transfer phase has called it exactly N+2 times when it returns: first
\* with 0, then with i/N after the i-th file, last with 1; every value lies
\* in [0,1] and the values never decrease.  Stated for a callback none of
\* whose calls raised.
C12_ProgressCalls ==
    ( /\ Returned
      /\ busySet
      /\ d_cb # "none"
      /\ \A i \in 1..Len(ProgressCalls) : ~ProgressCalls[i].raised ) =>
        LET cbs == ProgressCalls
        IN  /\ Len(cbs) = d_total + 2
            /\ cbs[1].num = 0
            /\ \A i \in 1..d_total :
                  cbs[i + 1].num = i /\ cbs[i + 1].den = d_total
            /\ cbs[d_total + 2].num = cbs[d_total + 2].den
            /\ \A i \in 1..Len(cbs) :
                  /\ cbs[i].den > 0
                  /\ 0 <= cbs[i].num
                  /\ cbs[i].num <= cbs[i].den
            /\ \A i \in 1..(Len(cbs) - 1) :
                  FractionLeq(cbs[i].num, cbs[i].den, cbs[i + 1].num, cbs[i + 1].den)

(***************************************************************************)
(* Properties of scan_devices                                              *)
(***************************************************************************)
\* C7: a device detected by one scan and not by the next is set to
\* DISCONNECTED by that next scan and stays in the device map: the scan that
\* first finds it absent never evicts it.
C7_GraceBeforeEviction ==
    [][\A p \in Ports :
          (p \in lastDetected /\ p \notin lastDetected')
          => (p \in DOMAIN devices' /\ devices'[p].state = "disconnected")]_vars

(***************************************************************************)
(* Properties of the Device Registry                                       *)
(***************************************************************************)
FiredConnected(events, p) ==
    \E i \in 1..Len(events) : events[i] = Event("device_connected", p)
LiveConnection(p) ==
    p \in DOMAIN connections /\ conns[connections[p]].is_connected

\* C16: a scan adds every newly detected port to the device map as a
\* DISCONNECTED entry and fires no "connected" notification for it; a
\* "connected" notification is fired only by a connect that succeeded.
C16_ScanAddsSilently ==
    [][ /\ reg_call'.op = "scan" =>
              \A p \in (DOMAIN devices') \ (DOMAIN devices) :
                  /\ devices'[p].state = "disconnected"
                  /\ ~FiredConnected(fired', p)
        /\ \A p \in Ports :
              FiredConnected(fired', p) =>
                  (reg_call'.op = "connect" /\ reg_call'.port = p /\ reg_call'.ret)
      ]_vars

\* C17: connect_device(port) with a live connection registered returns true
\* and changes nothing: no transport constructed, no state changed, no
\* notification; otherwise, when the new transport opens, it is registered,
\* the state becomes CONNECTED and one notification is fired; when it does
\* not open, or the port is unknown, false is returned, nothing is
\* registered and the device's state is as before.
C17_ConnectDevice ==
    [][ reg_call'.op = "connect" =>
          LET p == reg_call'.port
          IN  /\ reg_call'.live =>
                    ( /\ reg_call'.ret
                      /\ devices' = devices
                      /\ connections' = connections
                      /\ conns' = conns
                      /\ fired' = <<>> )
              /\ (reg_call'.ret /\ ~reg_call'.live) =>
                    ( /\ p \in DOMAIN connections'
                      /\ conns'[connections'[p]].is_connected
                      /\ devices'[p].state = "connected"
                      /\ fired' = <<Event("device_connected", p)>> )
              /\ ~reg_call'.ret =>
                    ( /\ devices' = devices
                      /\ connections' = connections
                      /\ Len(conns') = Len(conns)
                      /\ fired' = <<>> )
      ]_vars

C17_Witness ==
    /\ reg_call = RegistryCall("connect", "COM1", TRUE, TRUE)
    /\ LiveConnection("COM1")
    /\ Len(conns) = 1

\* The monitors whose reader thread runs on a transport of port p.
ReadingMonitors(p) ==
    {m \in 1..Len(mons) : mons[m].alive /\ conns[mons[m].conn].port = p}

\* C18: after disconnect_device(port) has returned, the port's transport is
\* closed and out of the connection map, and no monitor of the port is
\* registered or reading.
C18_DisconnectStopsMonitor ==
    reg_call.op = "disconnect" =>
        LET p == reg_call.port
        IN  /\ p \notin DOMAIN connections
            /\ \A c \in 1..Len(conns) : conns[c].port = p => ~conns[c].is_connected
            /\ p \notin DOMAIN serial_monitors
            /\ ReadingMonitors(p) = {}

\* C19: a disconnect_device(port) that follows one on the same port, or
\* that finds no connection for the port, leaves the device map and the
\* connection map as they were, but for the state DISCONNECTED it sets; a
\* SerialConnection.disconnect() on a closed transport leaves it closed.
C19_DisconnectIdempotent ==
    [][ /\ ( /\ reg_call.op = "disconnect"
              /\ reg_call'.op = "disconnect"
              /\ reg_call'.port = reg_call.port ) =>
                ( /\ devices' = devices
                  /\ connections' = connections
                  /\ conns' = conns )
        /\ (reg_call'.op = "disconnect" /\ ~reg_call'.live) =>
                ( /\ DOMAIN devices' = DOMAIN devices
                  /\ \A q \in DOMAIN devices :
                        devices'[q] = IF q = reg_call'.port
                                      THEN [devices[q] EXCEPT !.state = "disconnected"]
                                      ELSE devices[q]
                  /\ connections' = connections
                  /\ conns' = conns )
        /\ ( /\ reg_call.op = "transport_disconnect"
              /\ reg_call'.op = "transport_disconnect"
              /\ reg_call'.port = reg_call.port ) =>
                ( /\ conns' = conns
                  /\ ~conns'[connections'[reg_call'.port]].is_connected )
      ]_vars

C19_Witness ==
    /\ reg_call = RegistryCall("disconnect", "COM1", TRUE, FALSE)
    /\ "COM1" \in DOMAIN devices
    /\ devices["COM1"].state = "disconnected"
    /\ Len(conns) > 0
    /\ "COM1" \notin DOMAIN connections

\* C20: an observer that raises stops nothing: every event fired by a call
\* reaches every registered observer, in registration order, and the call
\* has the effect and the return value it has without observers.
C20_ObserverIsolation ==
    LET n == Len(observers)
    IN  /\ Len(notes) = Len(fired) * n
        /\ \A j \in 1..Len(notes) :
              /\ notes[j].observer = ((j - 1) % n) + 1
              /\ notes[j].event = fired[((j - 1) \div n) + 1].event
              /\ notes[j].port = fired[((j - 1) \div n) + 1].port
        /\ (reg_call.op = "connect" /\ reg_call.ret) =>
              ( /\ LiveConnection(reg_call.port)
                /\ reg_call.live \/ devices[reg_call.port].state = "connected" )
        /\ reg_call.op = "disconnect" =>
              ( /\ reg_call.port \notin DOMAIN connections
                /\ reg_call.port \in DOMAIN devices =>
                      devices[reg_call.port].state = "disconnected" )
        /\ reg_call.op = "scan" =>
              ( /\ lastDetected \subseteq DOMAIN devices
                /\ \A p \in (DOMAIN devices) \ lastDetected :
                      /\ devices[p].state = "disconnected"
                      /\ p \notin DOMAIN connections )

C20_Witness ==
    /\ reg_call.op = "connect"
    /\ reg_call.ret
    /\ Len(notes) = 2
    /\ notes[1].raised
    /\ notes[2].observer = 2
    /\ devices[reg_call.port].state = "connected"

(***************************************************************************)
(* Properties of the scan loop and of concurrent callers                   *)
(***************************************************************************)
\* C22: at most one scan-loop thread is alive, and a loop for which
\* stop_scanning was called ends at its next test of the flag.
C22_OneScanLoop ==
    [][ /\ Cardinality(AliveLoops') <= 1
        /\ \A t \in sc_stopped :
              (loops[t].pc = "check" /\ loops'[t].pc # "check") =>
                  loops'[t].pc = "dead"
      ]_vars

\* C23: the scan thread is never inside its update of the maps while a
\* caller thread is inside connect_device for a port that update covers.
C23_SingleWriter ==
    \A t \in 1..Len(loops) :
        ~ ( /\ loops[t].pc = "update"
            /\ c_pc = "connecting"
            /\ c_port \in loops[t].detected \cup DOMAIN devices )

\* the 'device_disconnected' events for port p among the events
DisconnectedEvents(events, p) ==
    {i \in 1..Len(events) : events[i] = Event("device_disconnected", p)}

\* C30: a call fires 'device_disconnected' for a port only when it moves the
\* port's device into DISCONNECTED from another state, and then once.
C30_OneNotificationPerTransition ==
    [][ \A p \in Ports :
            (obsVars' # obsVars /\ DisconnectedEvents(fired', p) # {}) =>
                /\ Cardinality(DisconnectedEvents(fired', p)) = 1
                /\ p \in DOMAIN devices
                /\ devices[p].state # "disconnected"
      ]_vars

(***************************************************************************)
(* Properties of the device lifecycle                                      *)
(***************************************************************************)
WorkingStates == {"busy", "flashing", "running", "error"}

\* The declared order: UNKNOWN, DISCONNECTED, CONNECTED, a working state,
\* DISCONNECTED.
DeclaredOrder(old, new) ==
    \/ new = "disconnected"
    \/ new = "connected" /\ old = "disconnected"
    \/ new \in WorkingStates /\ old \in {"connected"} \cup WorkingStates

\* C24: every change of the state of a known device follows the declared
\* order.  An entry the scan creates is not counted as a change.
C24_DeclaredOrder ==
    [][ \A p \in (DOMAIN devices) \cap (DOMAIN devices') :
            devices'[p].state # devices[p].state =>
                DeclaredOrder(devices[p].state, devices'[p].state)
      ]_vars

\* C27: a device is CONNECTED, BUSY or RUNNING only with a connected
\* transport registered for its port, and with one registered it is neither
\* DISCONNECTED nor UNKNOWN.
C27_StateAgreesWithConnection ==
    \A p \in DOMAIN devices :
        /\ devices[p].state \in {"connected", "busy", "running"} =>
              ( /\ p \in DOMAIN connections
                /\ conns[connections[p]].is_connected )
        /\ ( /\ p \in DOMAIN connections
              /\ conns[connections[p]].is_connected ) =>
              devices[p].state \notin {"disconnected", "unknown"}

(***************************************************************************)
(* Properties of the Transport                                             *)
(***************************************************************************)
\* what each operation returns to report a failure
FailureValue(op) ==
    IF op \in {"connect", "write"} THEN FALSE
    ELSE IF op \in {"read", "readline"} THEN <<>>
    ELSE 0

\* C25: no Transport operation raises, and one called on a link that is not
\* connected or whose I/O raises returns its failure value.
C25_FailureIsAValue ==
    /\ ~t_last.raised
    /\ (t_last.failing /\ t_last.op # "disconnect") =>
          t_last.ret = FailureValue(t_last.op)

(***************************************************************************)
(* Properties of the SerialMonitor                                         *)
(***************************************************************************)
ThreadsAt(pcs) == {t \in 1..Len(m_thr) : m_thr[t].pc \in pcs}

\* C21: the callback has received the formatted text of every non-empty
\* line readline returned, once each and in the order read, but for the
\* lines a reader still holds; an empty read and a raising callback change
\* nothing of that; with a log file configured and no stop() so far the log
\* holds the same texts; once stop() has returned the log handle is closed
\* and None.
C21_LinesDelivered ==
    /\ Len(m_delivered) + Cardinality(ThreadsAt({"deliver"})) = Len(m_read)
    /\ \A i \in 1..Len(m_delivered) : m_delivered[i] = Formatted(m_read[i])
    /\ (m_cfg /\ m_thr # <<>> /\ \A h \in 1..Len(m_handles) : m_handles[h]) =>
          /\ Len(m_logged) + Cardinality(ThreadsAt({"deliver", "log"})) = Len(m_read)
          /\ \A i \in 1..Len(m_logged) : m_logged[i] = Formatted(m_read[i])
    /\ (m_state = "stopped" /\ m_pc = "idle") =>
          /\ m_log = 0
          /\ \A h \in 1..Len(m_handles) : ~m_handles[h]

\* C28: once stop() has returned, and until the next start(), no reader
\* takes a line from the connection or calls the callback; and at most one
\* reader thread of the monitor is alive.
C28_StoppedMeansQuiet ==
    [][ /\ (m_state = "stopped" /\ m_pc = "idle") =>
              ( /\ m_feed' = m_feed
                /\ m_read' = m_read
                /\ m_delivered' = m_delivered )
        /\ Cardinality(AliveThreads') <= 1
      ]_vars

(***************************************************************************)
(* Properties of the Interpreter Session                                   *)
(***************************************************************************)
\* A completed call that started with nothing of an earlier answer still on
\* its way and whose answer arrived before the deadline.
Undisturbed(h) == h.clean /\ ~h.timedOut
Elements(seq) == {seq[i] : i \in 1..Len(seq)}
\* No call between the i-th and the j-th wrote the path again.
NotRewritten(i, j, path) ==
    \A k \in (i + 1)..(j - 1) : ~(s_hist[k].op = "upload" /\ s_hist[k].path = path)

\* C4: an upload_file followed by a download_file of the same remote path,
\* against the interpreter that echoes the command, runs it, prints its
\* output and then the prompt, both return true and the downloaded file has
\* exactly the uploaded bytes, whatever the content, the empty one included.
C4_RoundTrip ==
    \A i \in 1..Len(s_hist), j \in 1..Len(s_hist) :
        ( /\ i < j
          /\ s_hist[i].op = "upload"
          /\ s_hist[j].op = "download"
          /\ s_hist[i].path = s_hist[j].path
          /\ NotRewritten(i, j, s_hist[i].path)
          /\ Undisturbed(s_hist[i])
          /\ Undisturbed(s_hist[j]) )
        => ( /\ s_hist[i].ret
             /\ s_hist[j].ret
             /\ s_hist[j].file.written
             /\ s_hist[j].file.content = s_hist[i].content )

\* The response is the echo of the command directly followed by the prompt.
EchoOnly == s_last.response = s_last.cmd \o CRLF \o prompt

PrintedText(out) ==
    IF EndsWith(out, CRLF) THEN SubSeq(out, 1, Len(out) - Len(CRLF)) ELSE out

\* The response is the echo of the command, what the command printed, and
\* the prompt.
WellFormedAnswer ==
    s_last.response = s_last.cmd \o CRLF \o s_last.printed \o prompt

UploadCalls == {k \in 1..Len(s_hist) : s_hist[k].op = "upload"}
\* The interpreter raised while it executed the command of the call.
RemoteRaised(h) == Contains(h.printed, ErrorMarker)

C26_TrueMeansWritten ==
    \A k \in UploadCalls :
        s_hist[k].ret =>
            LET i == FsIndex(r_fs, s_hist[k].path)
            IN  /\ i # 0
                /\ r_fs[i].data = s_hist[k].content

\* The completed calls of download_file.
DownloadCalls == {k \in 1..Len(s_hist) : s_hist[k].op = "download"}
\* The interpreter printed the error line of the except branch.
RemoteErrorPrinted(h) == StartsWith(h.printed, RemoteErrorLine)

\* C15: download_file returns false and writes no local file when the
\* command timed out, when the captured output lacks the start or the end
\* sentinel, and when the interpreter printed the error line instead of the
\* payload; a local file is written only by a call that returns true, and
\* then with the bytes decoded from the payload between the sentinels.
C15_DownloadFailure ==
    \A k \in DownloadCalls :
        LET h == s_hist[k]
        IN  /\ h.timedOut => (~h.ret /\ ~h.file.written)
            /\ (~Contains(h.text, FILE_START) \/ ~Contains(h.text, FILE_END))
                  => (~h.ret /\ ~h.file.written)
            /\ RemoteErrorPrinted(h) => (~h.ret /\ ~h.file.written)
            /\ h.file.written =>
                  ( /\ h.ret
                    /\ Contains(h.text, FILE_START \o CRLF \o ToHex(h.file.content)
                                                    \o CRLF \o FILE_END) )

C15_Witness ==
    \E k \in DownloadCalls :
        /\ ~s_hist[k].timedOut
        /\ RemoteErrorPrinted(s_hist[k])
        /\ Contains(s_hist[k].text, RemoteErrorLine)
        /\ ~s_hist[k].ret
        /\ ~s_hist[k].file.written

\* C6: against a transport that never presents the prompt, silent or
\* printing something else without end, enter_repl terminates and returns
\* false.
C6_EnterReplTerminates ==
    (r_mode \in {"silent", "noisy"}) ~> (s_pc = "closed" /\ s_enter = "no")

\* C8: after an upload_file to a path in the root directory has returned
\* true, a list_files('/') of the same session returns a list that contains
\* the path.
C8_ListedAfterUpload ==
    \A i \in 1..Len(s_hist), j \in 1..Len(s_hist) :
        ( /\ i < j
          /\ s_hist[i].op = "upload"
          /\ s_hist[i].ret
          /\ s_hist[j].op = "list"
          /\ Undisturbed(s_hist[i])
          /\ Undisturbed(s_hist[j]) )
        => s_hist[i].path \in Elements(s_hist[j].files)

=============================================================================
